---------------------------- MODULE Spec2Model ----------------------------
(***************************************************************************)
(* Model of the tariff engine of the Octopus Energy Espana integration:    *)
(* TariffConfig validation (tariff/types.py) and TariffCalculator          *)
(* (tariff/calculator.py), of the consumption, daily cost and next-invoice *)
(* sensors (sensor.py) and of the credit merge (coordinator.py).           *)
(*                                                                         *)
(* Number representation.  Python floats are modelled as exact decimals    *)
(* held in integers:                                                       *)
(*   - energy rates and market prices: units of 1e-7 EUR/kWh ("ticks"),    *)
(*   - calculated prices (after round(x, 6)): units of 1e-6 EUR/kWh,       *)
(*   - discount_percentage: units of 0.01 (45 is 0.45),                    *)
(*   - power_kw: units of 0.1 kW; power rates: units of 1e-6 EUR/kW/day,   *)
(*   - power costs (after round(x, 6)): units of 1e-6 EUR/day,             *)
(*   - consumption: units of 1e-4 kWh; sensor values (after round(x, 3)):  *)
(*     units of 1e-3 kWh,                                                  *)
(*   - sensor money (energy, power, fees, taxes): units of 1e-11 EUR, the  *)
(*     product of a consumption unit and a tick,                           *)
(*   - tax rates: exact fractions [num, den].                              *)
(* round(x, n) is round-half-even on the exact decimal.                    *)
(*                                                                         *)
(* Time representation.  A date is a day number; day 0 is Monday           *)
(* 25 March 2024, so day 6 is Sunday 31 March 2024, the day Europe/Madrid  *)
(* switches from UTC+1 to UTC+2 at 01:00 UTC.  An ISO start_time string is *)
(* a record [day, hour, tz] with tz "naive", "Z" or "+02:00"; the sensors  *)
(* also meet strings that do not parse, tz "invalid".                      *)
(*                                                                         *)
(* Optional values (Python None) are sequences: None is << >>, a present   *)
(* value v is <<v>>.                                                       *)
(***************************************************************************)
EXTENDS Integers, Sequences, FiniteSets

VARIABLES
    args,             \* keyword arguments handed to TariffConfig(...)
    ctor,             \* "pending", "ok", or the ValueError the constructor raised
    config,           \* the constructed TariffConfig, None if none was produced
    market_prices,    \* the list handed to calculate_prices
    calculated,       \* the list calculate_prices returned, None before a call
    warnings,         \* the warnings logged by the last calculate_prices call
    power_kw,         \* argument of calculate_power_cost
    target_date,      \* argument of calculate_power_cost (None: today)
    power_cost,       \* the dict calculate_power_cost returned, None before a call
    now,              \* the wall clock: datetime.now(Madrid).date(), a day number
    probe,            \* observer: the first calculate_prices call since construction
    data,             \* coordinator.data
    last_update_success, \* coordinator.last_update_success
    entry,            \* what the sensors read of the config entry
    grouped,          \* the pair _group_consumption_by_date returned, None before a call
    daily_consumption, \* OctopusEnergyESDailyConsumptionSensor: value and attributes
    daily_cost,       \* OctopusEnergyESDailyCostSensor: value and the terms behind it
    next_invoice,     \* OctopusEnergyESNextInvoiceEstimatedSensor: value, attributes, terms
    recent_credits,   \* first argument of _merge_credits_data
    historical_credits, \* second argument of _merge_credits_data
    merged_credits,   \* the dict _merge_credits_data returned, None before a call
    monthly_consumption, \* OctopusEnergyESMonthlyConsumptionSensor
    weekly_consumption, \* OctopusEnergyESWeeklyConsumptionSensor
    coordinator,      \* the coordinator's price caches and last-update marker
    clock_hour,       \* the wall clock: datetime.now(Madrid).hour
    cycle,            \* observer: what the last update cycle did, None before one
    source,           \* the price source: what a fetch would give
    consumption_data, \* first argument of _merge_consumption_data
    historical_data,  \* second argument of _merge_consumption_data
    merged_consumption \* the list _merge_consumption_data returned, None before a call

rollupVars == <<monthly_consumption, weekly_consumption>>

coordinatorVars == <<coordinator, clock_hour, cycle, source>>

mergeVars == <<consumption_data, historical_data, merged_consumption>>

otherVars == <<rollupVars, coordinatorVars, mergeVars>>

\* the coordinator's result and the sensors of the first sittings
resultVars == <<data, last_update_success, entry, grouped, daily_consumption,
                daily_cost, next_invoice, recent_credits, historical_credits,
                merged_credits>>

sensorVars == <<data, last_update_success, entry, grouped, daily_consumption,
                daily_cost, next_invoice, recent_credits, historical_credits,
                merged_credits, otherVars>>

vars == <<args, ctor, config, market_prices, calculated, warnings,
          power_kw, target_date, power_cost, now, probe, data,
          last_update_success, entry, grouped, daily_consumption,
          daily_cost, next_invoice, recent_credits, historical_credits,
          merged_credits, monthly_consumption, weekly_consumption,
          coordinator, clock_hour, cycle, source, consumption_data,
          historical_data,
          merged_consumption>>

---------------------------------------------------------------------------
(* Optional values *)

None == << >>

Some(v) == <<v>>

Val(o) == o[1]

ToSet(s) == {s[i] : i \in DOMAIN s}

---------------------------------------------------------------------------
(* const.py *)

PRICING_MODEL_FIXED == "fixed"

PRICING_MODEL_MARKET == "market"

TIME_STRUCTURE_SINGLE_RATE == "single_rate"

TIME_STRUCTURE_TIME_OF_USE == "time_of_use"

DEFAULT_P1_HOURS == <<10, 11, 12, 13, 18, 19, 20, 21>>

DEFAULT_P2_HOURS == <<8, 9, 14, 15, 16, 17, 22, 23>>

DEFAULT_P3_HOURS == <<0, 1, 2, 3, 4, 5, 6, 7>>

\* range(24)
Hours == 0 .. 23

---------------------------------------------------------------------------
(* TariffConfig.__post_init__: the checks in source order; the result is    *)
(* "ok" or the check that raised ValueError.                                *)

\* set(p1 + p2 + p3)
AllHours(a) ==
    ToSet(a.p1_hours_weekdays \o a.p2_hours_weekdays \o a.p3_hours_weekdays)

\* PostInit with the period-hour check reduced to "no hour is missing"
PostInit_MissingOnly(a) ==
    IF a.pricing_model \notin {PRICING_MODEL_FIXED, PRICING_MODEL_MARKET}
    THEN "ValueError: pricing_model"
    ELSE IF a.time_structure \notin {TIME_STRUCTURE_SINGLE_RATE, TIME_STRUCTURE_TIME_OF_USE}
    THEN "ValueError: time_structure"
    ELSE IF ~ (Hours \subseteq AllHours(a))
    THEN "ValueError: hours"
    ELSE IF a.discount_percentage # None
    THEN IF a.discount_start_hour = None \/ a.discount_end_hour = None
         THEN "ValueError: discount hours required"
         ELSE IF ~ (/\ 0 <= Val(a.discount_start_hour)
                    /\ Val(a.discount_start_hour) <= 23
                    /\ 0 <= Val(a.discount_end_hour)
                    /\ Val(a.discount_end_hour) <= 23)
         THEN "ValueError: discount hours range"
         ELSE IF ~ (0 <= Val(a.discount_percentage) /\ Val(a.discount_percentage) <= 100)
         THEN "ValueError: discount_percentage"
         ELSE "ok"
    ELSE "ok"

\* PostInit with the period-hour check reduced to "no hour is out of range"
PostInit_RangeOnly(a) ==
    IF a.pricing_model \notin {PRICING_MODEL_FIXED, PRICING_MODEL_MARKET}
    THEN "ValueError: pricing_model"
    ELSE IF a.time_structure \notin {TIME_STRUCTURE_SINGLE_RATE, TIME_STRUCTURE_TIME_OF_USE}
    THEN "ValueError: time_structure"
    ELSE IF ~ (AllHours(a) \subseteq Hours)
    THEN "ValueError: hours"
    ELSE IF a.discount_percentage # None
    THEN IF a.discount_start_hour = None \/ a.discount_end_hour = None
         THEN "ValueError: discount hours required"
         ELSE IF ~ (/\ 0 <= Val(a.discount_start_hour)
                    /\ Val(a.discount_start_hour) <= 23
                    /\ 0 <= Val(a.discount_end_hour)
                    /\ Val(a.discount_end_hour) <= 23)
         THEN "ValueError: discount hours range"
         ELSE IF ~ (0 <= Val(a.discount_percentage) /\ Val(a.discount_percentage) <= 100)
         THEN "ValueError: discount_percentage"
         ELSE "ok"
    ELSE "ok"

\* PostInit with the discount-hour range check passing when either hour is in range
PostInit_EitherHour(a) ==
    IF a.pricing_model \notin {PRICING_MODEL_FIXED, PRICING_MODEL_MARKET}
    THEN "ValueError: pricing_model"
    ELSE IF a.time_structure \notin {TIME_STRUCTURE_SINGLE_RATE, TIME_STRUCTURE_TIME_OF_USE}
    THEN "ValueError: time_structure"
    ELSE IF AllHours(a) # Hours
    THEN "ValueError: hours"
    ELSE IF a.discount_percentage # None
    THEN IF a.discount_start_hour = None \/ a.discount_end_hour = None
         THEN "ValueError: discount hours required"
         ELSE IF ~ (\/ 0 <= Val(a.discount_start_hour)
                       /\ Val(a.discount_start_hour) <= 23
                    \/ 0 <= Val(a.discount_end_hour)
                       /\ Val(a.discount_end_hour) <= 23)
         THEN "ValueError: discount hours range"
         ELSE IF ~ (0 <= Val(a.discount_percentage) /\ Val(a.discount_percentage) <= 100)
         THEN "ValueError: discount_percentage"
         ELSE "ok"
    ELSE "ok"

PostInit(a) ==
    IF a.pricing_model \notin {PRICING_MODEL_FIXED, PRICING_MODEL_MARKET}
    THEN "ValueError: pricing_model"
    ELSE IF a.time_structure \notin {TIME_STRUCTURE_SINGLE_RATE, TIME_STRUCTURE_TIME_OF_USE}
    THEN "ValueError: time_structure"
    ELSE IF AllHours(a) # Hours
    THEN "ValueError: hours"
    ELSE IF a.discount_percentage # None
    THEN IF a.discount_start_hour = None \/ a.discount_end_hour = None
         THEN "ValueError: discount hours required"
         ELSE IF ~ (/\ 0 <= Val(a.discount_start_hour)
                    /\ Val(a.discount_start_hour) <= 23
                    /\ 0 <= Val(a.discount_end_hour)
                    /\ Val(a.discount_end_hour) <= 23)
         THEN "ValueError: discount hours range"
         ELSE IF ~ (0 <= Val(a.discount_percentage) /\ Val(a.discount_percentage) <= 100)
         THEN "ValueError: discount_percentage"
         ELSE "ok"
    ELSE "ok"

---------------------------------------------------------------------------
(* Time: datetime.fromisoformat, astimezone(Europe/Madrid), weekday()       *)

\* datetime.date(y, m, d) as a day number (proleptic Gregorian calendar;
\* day 0 is 2024-03-25, which is day 19807 after 1970-01-01)
DaysFromCivil(y, m, d) ==
    LET yy == IF m <= 2 THEN y - 1 ELSE y
        era == yy \div 400
        yoe == yy % 400
        mp == IF m > 2 THEN m - 3 ELSE m + 9
        doy == (153 * mp + 2) \div 5 + d - 1
        doe == yoe * 365 + yoe \div 4 - yoe \div 100 + doy
    IN  era * 146097 + doe - 719468 - 19807

\* the fields year, month, day of the date with day number n
CivilFromDays(n) ==
    LET z == n + 19807 + 719468
        era == z \div 146097
        doe == z % 146097
        yoe == (doe - doe \div 1460 + doe \div 36524 - doe \div 146096) \div 365
        doy == doe - (365 * yoe + yoe \div 4 - yoe \div 100)
        mp == (5 * doy + 2) \div 153
        d == doy - (153 * mp + 2) \div 5 + 1
        mm == IF mp < 10 THEN mp + 3 ELSE mp - 9
    IN  [year |-> yoe + era * 400 + (IF mm <= 2 THEN 1 ELSE 0),
         month |-> mm,
         day |-> d]

\* First UTC hour (counted from day 0 00:00 UTC) at which Madrid is on UTC+2:
\* Sunday 31 March 2024 01:00 UTC.
DstStartUtc == 6 * 24 + 1

\* Europe/Madrid summer time ends on Sunday 27 October 2024 01:00 UTC and
\* runs again from Sunday 30 March 2025 to Sunday 26 October 2025
DstEndUtc == DaysFromCivil(2024, 10, 27) * 24 + 1

DstStartUtc2025 == DaysFromCivil(2025, 3, 30) * 24 + 1

DstEndUtc2025 == DaysFromCivil(2025, 10, 26) * 24 + 1

MadridUtcOffset(utc) ==
    IF \/ (utc >= DstStartUtc /\ utc < DstEndUtc)
       \/ (utc >= DstStartUtc2025 /\ utc < DstEndUtc2025)
    THEN 2 ELSE 1

TzOffset(tz) == IF tz = "Z" THEN 0 ELSE 2

\* dt = fromisoformat(s); naive: dt.replace(tzinfo=Madrid), aware:
\* dt.astimezone(Madrid).  The result is the Madrid wall time [day, hour].
Localize(st) ==
    IF st.tz = "naive"
    THEN [day |-> st.day, hour |-> st.hour]
    ELSE LET utc == st.day * 24 + st.hour - TzOffset(st.tz)
             loc == utc + MadridUtcOffset(utc)
         IN  [day |-> loc \div 24, hour |-> loc % 24]

\* date.weekday(): 0 is Monday
Weekday(day) == day % 7

\* TariffCalculator._is_weekday
IsWeekday(dt) == Weekday(dt.day) < 5

---------------------------------------------------------------------------
(* round(): n/d rounded to the nearest integer, ties to the even one        *)

RoundHalfEven(n, d) ==
    LET q == n \div d
        r == n % d
    IN  IF 2 * r < d THEN q
        ELSE IF 2 * r > d THEN q + 1
        ELSE IF q % 2 = 0 THEN q ELSE q + 1

\* round(rate, 6) of a value in ticks (1e-7), result in 1e-6
Round6Ticks(x) == RoundHalfEven(x, 10)

---------------------------------------------------------------------------
(* TariffCalculator *)

\* GetPeriodForHour without the weekend branch
GetPeriodForHour_NoWeekend(c, hour, is_weekday) ==
    IF c.time_structure # TIME_STRUCTURE_TIME_OF_USE
    THEN [period |-> "SINGLE", rate |-> None, warned |-> FALSE]
    ELSE IF hour \in ToSet(c.p1_hours_weekdays)
    THEN [period |-> "P1", rate |-> c.p1_rate, warned |-> FALSE]
    ELSE IF hour \in ToSet(c.p2_hours_weekdays)
    THEN [period |-> "P2", rate |-> c.p2_rate, warned |-> FALSE]
    ELSE IF hour \in ToSet(c.p3_hours_weekdays)
    THEN [period |-> "P3", rate |-> c.p3_rate, warned |-> FALSE]
    ELSE [period |-> "P2", rate |-> c.p2_rate, warned |-> TRUE]

\* _get_period_for_hour: (period_name, rate) and whether the
\* "not in any period definition" warning was logged
GetPeriodForHour(c, hour, is_weekday) ==
    IF c.time_structure # TIME_STRUCTURE_TIME_OF_USE
    THEN [period |-> "SINGLE", rate |-> None, warned |-> FALSE]
    ELSE IF ~ is_weekday
    THEN [period |-> "P3", rate |-> c.p3_rate, warned |-> FALSE]
    ELSE IF hour \in ToSet(c.p1_hours_weekdays)
    THEN [period |-> "P1", rate |-> c.p1_rate, warned |-> FALSE]
    ELSE IF hour \in ToSet(c.p2_hours_weekdays)
    THEN [period |-> "P2", rate |-> c.p2_rate, warned |-> FALSE]
    ELSE IF hour \in ToSet(c.p3_hours_weekdays)
    THEN [period |-> "P3", rate |-> c.p3_rate, warned |-> FALSE]
    ELSE [period |-> "P2", rate |-> c.p2_rate, warned |-> TRUE]

\* MarketRecord with the discount window closed at its end (hour <= end)
MarketRecord_ClosedWindow(c, price_data) ==
    LET dt == Localize(price_data.start_time)
        market_price == price_data.price_per_kwh
        hour == dt.hour
        discounted ==
            /\ c.discount_start_hour # None
            /\ c.discount_end_hour # None
            /\ c.discount_percentage # None
            /\ Val(c.discount_start_hour) <= hour
            /\ hour <= Val(c.discount_end_hour)
    IN  [start_time |-> price_data.start_time,
         price_per_kwh |->
            IF discounted
            THEN RoundHalfEven(market_price * (100 - Val(c.discount_percentage)), 1000)
            ELSE Round6Ticks(market_price),
         warnings |-> {}]

\* body of the loop of _calculate_market for one record: the appended record
MarketRecord(c, price_data) ==
    LET dt == Localize(price_data.start_time)
        market_price == price_data.price_per_kwh
        hour == dt.hour
        discounted ==
            /\ c.discount_start_hour # None
            /\ c.discount_end_hour # None
            /\ c.discount_percentage # None
            /\ Val(c.discount_start_hour) <= hour
            /\ hour < Val(c.discount_end_hour)
    IN  [start_time |-> price_data.start_time,
         price_per_kwh |->
            IF discounted
            THEN RoundHalfEven(market_price * (100 - Val(c.discount_percentage)), 1000)
            ELSE Round6Ticks(market_price),
         warnings |-> {}]

\* FixedRecord that takes the period rate whatever the time structure
FixedRecord_AlwaysPeriod(c, price_data) ==
    LET dt == Localize(price_data.start_time)
        p == GetPeriodForHour(c, dt.hour, IsWeekday(dt))
    IN  [start_time |-> price_data.start_time,
         price_per_kwh |-> Round6Ticks(IF p.rate # None THEN Val(p.rate) ELSE 0),
         warnings |-> {}]

\* body of the loop of _calculate_fixed for one record
FixedRecord(c, price_data) ==
    LET dt == Localize(price_data.start_time)
        hour == dt.hour
        is_weekday == IsWeekday(dt)
        p == GetPeriodForHour(c, hour, is_weekday)
        rate ==
            IF c.time_structure = TIME_STRUCTURE_SINGLE_RATE
            THEN IF c.fixed_rate # None THEN Val(c.fixed_rate) ELSE 0
            ELSE IF p.rate # None THEN Val(p.rate) ELSE 0
        warns ==
            IF c.time_structure = TIME_STRUCTURE_SINGLE_RATE
            THEN IF c.fixed_rate # None THEN {} ELSE {"fixed rate not configured"}
            ELSE (IF p.warned THEN {"hour not in any period"} ELSE {})
                 \cup (IF p.rate # None THEN {} ELSE {"period rate not found"})
    IN  [start_time |-> price_data.start_time,
         price_per_kwh |-> Round6Ticks(rate),
         warnings |-> warns]

\* the dict appended to calculated_prices
Output(r) == [start_time |-> r.start_time, price_per_kwh |-> r.price_per_kwh]

\* CalculateMarket that inserts each record at the front of the result
CalculateMarket_Prepend(c, mp, date, today) ==
    LET recs == [i \in 1 .. Len(mp) |-> MarketRecord(c, mp[i])]
    IN  [prices |-> [i \in 1 .. Len(mp) |-> Output(recs[Len(mp) + 1 - i])],
         warnings |-> {}]

\* _calculate_market: target_date defaults to today's Madrid date
CalculateMarket(c, mp, date, today) ==
    LET target == IF date = None THEN today ELSE Val(date)
        recs == [i \in 1 .. Len(mp) |-> MarketRecord(c, mp[i])]
    IN  [prices |-> [i \in 1 .. Len(mp) |-> Output(recs[i])],
         warnings |-> UNION {recs[i].warnings : i \in 1 .. Len(mp)}]

\* CalculateFixed that takes the day of week from target_date, not from the
\* record's start_time
CalculateFixed_UsesTargetDate(c, mp, date, today) ==
    LET target == IF date = None THEN today ELSE Val(date)
        recs == [i \in 1 .. Len(mp) |->
                    FixedRecord(c, [mp[i] EXCEPT !.start_time =
                        [day |-> target,
                         hour |-> Localize(mp[i].start_time).hour,
                         tz |-> "naive"]])]
    IN  [prices |-> [i \in 1 .. Len(mp) |->
                        [start_time |-> mp[i].start_time,
                         price_per_kwh |-> recs[i].price_per_kwh]],
         warnings |-> UNION {recs[i].warnings : i \in 1 .. Len(mp)}]

\* _calculate_fixed
CalculateFixed(c, mp, date, today) ==
    LET target == IF date = None THEN today ELSE Val(date)
        recs == [i \in 1 .. Len(mp) |-> FixedRecord(c, mp[i])]
    IN  [prices |-> [i \in 1 .. Len(mp) |-> Output(recs[i])],
         warnings |-> UNION {recs[i].warnings : i \in 1 .. Len(mp)}]

\* calculate_prices
CalculatePricesOf(c, mp, date, today) ==
    IF c.pricing_model = PRICING_MODEL_MARKET
    THEN CalculateMarket(c, mp, date, today)
    ELSE IF c.pricing_model = PRICING_MODEL_FIXED
    THEN CalculateFixed(c, mp, date, today)
    ELSE [prices |-> mp, warnings |-> {"unknown pricing model"}]

\* the loop of calculate_power_cost over range(24): hours counted as P1
\* among the hours below h
RECURSIVE CountP1Hours(_, _, _)
CountP1Hours(c, day, h) ==
    IF h = 0 THEN 0
    ELSE CountP1Hours(c, day, h - 1)
         + (IF IsWeekday([day |-> day, hour |-> h - 1])
               /\ (h - 1) \in ToSet(c.p1_hours_weekdays)
            THEN 1 ELSE 0)

\* CalculatePowerCostOf with total_cost the sum of the two rounded costs
CalculatePowerCostOf_SumOfRounded(c, kw, date, today) ==
    LET target == IF date = None THEN today ELSE Val(date)
    IN  IF c.power_p1_rate = None \/ c.power_p2_rate = None
        THEN [p1_cost |-> 0, p2_cost |-> 0, total_cost |-> 0, target_date |-> target]
        ELSE LET p1_hours == CountP1Hours(c, target, 24)
                 p2_hours == 24 - p1_hours
                 p1_num == kw * Val(c.power_p1_rate) * p1_hours
                 p2_num == kw * Val(c.power_p2_rate) * p2_hours
             IN  [p1_cost |-> RoundHalfEven(p1_num, 240),
                  p2_cost |-> RoundHalfEven(p2_num, 240),
                  total_cost |-> RoundHalfEven(p1_num, 240) + RoundHalfEven(p2_num, 240),
                  target_date |-> target]

\* calculate_power_cost: the returned dict, and in target_date the date the
\* hours were counted for (the local target_date after defaulting to today).
\* kw * rate * hours / 24 in 1e-6 EUR is (kw * rate * hours) / 240 in the
\* model's units (kw in 0.1 kW).
CalculatePowerCostOf(c, kw, date, today) ==
    LET target == IF date = None THEN today ELSE Val(date)
    IN  IF c.power_p1_rate = None \/ c.power_p2_rate = None
        THEN [p1_cost |-> 0, p2_cost |-> 0, total_cost |-> 0, target_date |-> target]
        ELSE LET p1_hours == CountP1Hours(c, target, 24)
                 p2_hours == 24 - p1_hours
                 p1_num == kw * Val(c.power_p1_rate) * p1_hours
                 p2_num == kw * Val(c.power_p2_rate) * p2_hours
             IN  [p1_cost |-> RoundHalfEven(p1_num, 240),
                  p2_cost |-> RoundHalfEven(p2_num, 240),
                  total_cost |-> RoundHalfEven(p1_num + p2_num, 240),
                  target_date |-> target]

---------------------------------------------------------------------------
(* sensor.py: parsing and grouping of consumption records                   *)
(*                                                                         *)
(* A consumption record is [start_time, date, consumption]: the keys       *)
(* "start_time" and "date" hold an ISO string or are missing (None), the   *)
(* key "consumption" holds the energy of the record.                       *)

\* _parse_datetime_to_madrid: fromisoformat raises ValueError on a string
\* that does not parse (result None); a naive datetime is taken as UTC; the
\* result is the Madrid wall time [day, hour]
ParseDatetimeToMadrid(st) ==
    IF st.tz = "invalid"
    THEN None
    ELSE LET utc == st.day * 24 + st.hour
                        - (IF st.tz = "naive" THEN 0 ELSE TzOffset(st.tz))
             loc == utc + MadridUtcOffset(utc)
         IN  Some([day |-> loc \div 24, hour |-> loc % 24])

\* item.get("start_time") or item.get("date")
ItemTimeStr(item) ==
    IF item.start_time # None THEN item.start_time ELSE item.date

\* daily_totals[key] = value: the record replaces the bucket
DictAdd_Overwrite(totals, key, value) ==
    [k \in DOMAIN totals \cup {key} |->
        IF k = key THEN value ELSE totals[k]]

\* daily_totals[key] += value; a new key starts at 0.0
DictAdd(totals, key, value) ==
    [k \in DOMAIN totals \cup {key} |->
        (IF k \in DOMAIN totals THEN totals[k] ELSE 0)
        + (IF k = key THEN value ELSE 0)]

\* the loop of _group_consumption_by_date from item i on
RECURSIVE DailyTotalsFrom(_, _, _)
DailyTotalsFrom(consumption, i, daily_totals) ==
    IF i > Len(consumption)
    THEN daily_totals
    ELSE LET item == consumption[i]
             item_time_str == ItemTimeStr(item)
             item_dt_madrid == IF item_time_str = None
                               THEN None
                               ELSE ParseDatetimeToMadrid(Val(item_time_str))
         IN  IF item_dt_madrid = None
             THEN DailyTotalsFrom(consumption, i + 1, daily_totals)
             ELSE DailyTotalsFrom(consumption, i + 1,
                      DictAdd(daily_totals, Val(item_dt_madrid).day,
                              item.consumption))

\* list.sort(reverse=True) of a list without repetitions
RECURSIVE SortedReverse(_)
SortedReverse(S) ==
    IF S = {}
    THEN << >>
    ELSE LET last == CHOOSE x \in S : \A y \in S : y <= x
         IN  <<last>> \o SortedReverse(S \ {last})

\* _group_consumption_by_date: (daily_totals, all_dates)
GroupConsumptionByDate(consumption) ==
    LET daily_totals == DailyTotalsFrom(consumption, 1, << >>)
    IN  [daily_totals |-> daily_totals,
         all_dates |-> SortedReverse(DOMAIN daily_totals)]

\* the loop of _group_consumption_by_hour from item i on; a key is the
\* Madrid hour day * 24 + hour; the records carry no "datetime" key
RECURSIVE HourlyTotalsFrom(_, _, _)
HourlyTotalsFrom(consumption, i, hourly_totals) ==
    IF i > Len(consumption)
    THEN hourly_totals
    ELSE LET item == consumption[i]
             item_dt_madrid == IF item.start_time = None
                               THEN None
                               ELSE ParseDatetimeToMadrid(Val(item.start_time))
         IN  IF item_dt_madrid = None
             THEN HourlyTotalsFrom(consumption, i + 1, hourly_totals)
             ELSE HourlyTotalsFrom(consumption, i + 1,
                      DictAdd(hourly_totals,
                              Val(item_dt_madrid).day * 24 + Val(item_dt_madrid).hour,
                              item.consumption))

\* _group_consumption_by_hour: (hourly_totals, all_hours)
GroupConsumptionByHour(consumption) ==
    LET hourly_totals == HourlyTotalsFrom(consumption, 1, << >>)
    IN  [hourly_totals |-> hourly_totals,
         all_hours |-> SortedReverse(DOMAIN hourly_totals)]

\* round(x, 3) of a consumption in 1e-4 kWh, result in 1e-3 kWh
Round3(x) == RoundHalfEven(x, 10)

---------------------------------------------------------------------------
(* sensor.py: OctopusEnergyESSensor._has_data                               *)

\* coordinator.data is the dict [today_prices, tomorrow_prices, consumption,
\* billing, credits, account]; an empty dict is None
HasData(d, success) ==
    \/ success
    \/ d.today_prices # << >>
    \/ d.tomorrow_prices # << >>
    \/ d.consumption # << >>
    \/ d.billing # None
    \/ d.credits # None
    \/ d.account # None

---------------------------------------------------------------------------
(* sensor.py: OctopusEnergyESDailyConsumptionSensor                        *)

\* the sensor after __init__; "returned" is None until native_value is read
\* and then holds what the last read returned (None or a value)
NewDailyConsumption ==
    [returned |-> None,
     consumption_date |-> None,
     is_today |-> FALSE,
     data_available_until |-> None,
     hourly_breakdown |-> << >>]

\* hourly_breakdown for target: hour_00 .. hour_23
HourlyBreakdown(hourly_totals, target) ==
    [h \in Hours |->
        IF target * 24 + h \in DOMAIN hourly_totals
        THEN Round3(hourly_totals[target * 24 + h])
        ELSE 0]

\* the selection always takes the most recent day with data
SelectTargetDate_MostRecent(g, today) == g.all_dates[1]

\* today if today in daily_totals else all_dates[0]
SelectTargetDate(g, today) ==
    IF today \in DOMAIN g.daily_totals THEN today ELSE g.all_dates[1]

\* native_value: the sensor (attributes and returned value) after a read
DailyConsumptionNativeValue(self, d, success, today) ==
    IF ~HasData(d, success)
    THEN [self EXCEPT !.returned = Some(None)]
    ELSE IF d.consumption = << >>
    THEN [NewDailyConsumption EXCEPT !.returned = Some(None)]
    ELSE LET g == GroupConsumptionByDate(d.consumption)
             gh == GroupConsumptionByHour(d.consumption)
         IN  IF g.all_dates = << >>
             THEN [NewDailyConsumption EXCEPT !.returned = Some(None)]
             ELSE LET target == SelectTargetDate(g, today)
                  IN  [returned |-> Some(Some(Round3(g.daily_totals[target]))),
                       consumption_date |-> Some(target),
                       is_today |-> target = today,
                       data_available_until |-> Some(g.all_dates[1]),
                       hourly_breakdown |->
                           HourlyBreakdown(gh.hourly_totals, target)]

---------------------------------------------------------------------------
(* sensor.py: OctopusEnergyESDailyCostSensor                                *)
(*                                                                         *)
(* A price record of coordinator.data is [start_time, price_per_kwh], the  *)
(* price in 1e-6 EUR/kWh as calculate_prices returns it.  An energy cost   *)
(* is the exact fraction [num, den] of 1e-10 EUR (consumption unit times   *)
(* price unit): the averages of the fallback divide by a count.            *)

\* the sensor after __init__; "returned" as for the consumption sensor;
\* "call" holds the arguments of the last calculate_daily_cost call
NewDailyCost ==
    [returned |-> None,
     cost_date |-> None,
     is_today |-> FALSE,
     data_available_until |-> None,
     call |-> None]

\* the Madrid [day, hour] of a consumption record, None if it has none
ItemMadrid(item) ==
    IF ItemTimeStr(item) = None
    THEN None
    ELSE ParseDatetimeToMadrid(Val(ItemTimeStr(item)))

\* hourly_consumption: hour -> kWh of the records of the day "target"
RECURSIVE HourlyConsumptionFrom(_, _, _, _)
HourlyConsumptionFrom(consumption, i, target, hourly_consumption) ==
    IF i > Len(consumption)
    THEN hourly_consumption
    ELSE LET item_dt_madrid == ItemMadrid(consumption[i])
         IN  HourlyConsumptionFrom(consumption, i + 1, target,
                 IF item_dt_madrid # None /\ Val(item_dt_madrid).day = target
                 THEN DictAdd(hourly_consumption, Val(item_dt_madrid).hour,
                              consumption[i].consumption)
                 ELSE hourly_consumption)

\* the price records whose Madrid hour is "hour", whatever their date
PricesForHour_AnyDate(prices, target, hour) ==
    {i \in DOMAIN prices :
        LET price_dt_madrid == ParseDatetimeToMadrid(prices[i].start_time)
        IN  price_dt_madrid # None /\ Val(price_dt_madrid).hour = hour}

\* the price records of the Madrid date "target" whose Madrid hour is "hour",
\* as positions in the list
PricesForHour(prices, target, hour) ==
    {i \in DOMAIN prices :
        LET price_dt_madrid == ParseDatetimeToMadrid(prices[i].start_time)
        IN  /\ price_dt_madrid # None
            /\ Val(price_dt_madrid).day = target
            /\ Val(price_dt_madrid).hour = hour}

\* the price records of the Madrid date "target", as positions in the list
PricesForDate(prices, target) ==
    {i \in DOMAIN prices :
        LET price_dt_madrid == ParseDatetimeToMadrid(prices[i].start_time)
        IN  price_dt_madrid # None /\ Val(price_dt_madrid).day = target}

\* the first position of a non-empty set of positions (the loop breaks there)
First(I) == CHOOSE i \in I : \A j \in I : i <= j

RECURSIVE SumPrices(_, _)
SumPrices(prices, I) ==
    IF I = {}
    THEN 0
    ELSE prices[First(I)].price_per_kwh + SumPrices(prices, I \ {First(I)})

\* energy_cost += consumption_value * price for the hours of H
RECURSIVE SumMatched(_, _, _, _)
SumMatched(hourly_consumption, prices, target, H) ==
    IF H = {}
    THEN 0
    ELSE LET hour == CHOOSE h \in H : TRUE
         IN  hourly_consumption[hour]
                 * prices[First(PricesForHour(prices, target, hour))].price_per_kwh
             + SumMatched(hourly_consumption, prices, target, H \ {hour})

\* the energy cost of the day "target": None when the code returns None
DailyEnergyCost(consumption, prices, daily_totals, target) ==
    LET hourly_consumption == HourlyConsumptionFrom(consumption, 1, target, << >>)
        matched == {h \in DOMAIN hourly_consumption :
                       PricesForHour(prices, target, h) # {}}
        daily_prices == PricesForDate(prices, target)
    IN  IF matched # {}
        THEN Some([num |-> SumMatched(hourly_consumption, prices, target, matched),
                   den |-> 1])
        ELSE IF daily_prices # {}
        THEN Some([num |-> daily_totals[target] * SumPrices(prices, daily_prices),
                   den |-> Cardinality(daily_prices)])
        ELSE IF prices # << >>
        THEN Some([num |-> daily_totals[target] * SumPrices(prices, DOMAIN prices),
                   den |-> Len(prices)])
        ELSE None

\* native_value up to the call of calculate_daily_cost, which the source
\* tree does not contain: the sensor after a read, its result being the
\* arguments of that call
DailyCostNativeValue(self, d, success, e, c, today) ==
    IF ~HasData(d, success)
    THEN [self EXCEPT !.returned = Some(None)]
    ELSE IF d.today_prices = << >> \/ d.consumption = << >>
    THEN [self EXCEPT !.returned = Some(None), !.cost_date = None,
                      !.is_today = FALSE, !.data_available_until = None]
    ELSE LET g == GroupConsumptionByDate(d.consumption)
         IN  IF g.all_dates = << >>
             THEN [self EXCEPT !.returned = Some(None), !.cost_date = None,
                               !.is_today = FALSE, !.data_available_until = None]
             ELSE LET target == SelectTargetDate(g, today)
                      energy_cost == DailyEnergyCost(d.consumption, d.today_prices,
                                                     g.daily_totals, target)
                      seen == [self EXCEPT !.cost_date = Some(target),
                                           !.is_today = (target = today),
                                           !.data_available_until = Some(g.all_dates[1])]
                  IN  IF energy_cost = None
                      THEN [seen EXCEPT !.returned = Some(None), !.call = None]
                      ELSE LET call ==
                                   [energy_cost |-> Val(energy_cost),
                                    power_cost |->
                                        IF e.power_kw = None
                                        THEN None
                                        ELSE Some(CalculatePowerCostOf(c, Val(e.power_kw),
                                                      Some(target), today).total_cost),
                                    management_fee_daily |->
                                        IF e.management_fee_monthly = None
                                        THEN None
                                        ELSE Some([num |-> Val(e.management_fee_monthly),
                                                   den |-> 30]),
                                    target_date |-> target]
                           IN  [seen EXCEPT !.returned = Some(Some(call)),
                                            !.call = Some(call)]

---------------------------------------------------------------------------
(* sensor.py: OctopusEnergyESNextInvoiceEstimatedSensor                     *)
(*                                                                         *)
(* Amounts of money are in units of 1e-7 EUR and the consumption of a      *)
(* record is in kWh, so that consumption times a rate (1e-7 EUR/kWh) is an *)
(* amount, and consumption times a calculated price (1e-6 EUR/kWh) is ten  *)
(* times smaller than one.  A quotient (an average) is rounded to the      *)
(* unit.  The tax rates electricity_tax_rate and vat_rate, which the       *)
(* sensor reads from the tariff configuration, are exact fractions         *)
(* [num, den], and the three amounts computed from them are exact          *)
(* fractions of the unit.  The dates of the last invoice are ISO date      *)
(* strings [day, tz] with tz "date", or "invalid" for a string that is no  *)
(* date.                                                                   *)

\* the sensor after __init__; "returned" as for the consumption sensor;
\* "terms" holds the local values of the last complete computation
NewNextInvoice ==
    [returned |-> None,
     estimated_breakdown |-> None,
     period_start |-> None,
     period_end |-> None,
     days_elapsed |-> 0,
     days_remaining |-> 0,
     terms |-> None]

\* date.fromisoformat: None stands for the ValueError
ParseInvoiceDate(s) == IF s.tz = "invalid" THEN None ELSE Some(s.day)

\* last day of the calendar month of a date
LastDayOfMonth(day) ==
    LET c == CivilFromDays(day)
    IN  IF c.month = 12
        THEN DaysFromCivil(c.year + 1, 1, 1) - 1
        ELSE DaysFromCivil(c.year, c.month + 1, 1) - 1

\* the next billing period derived from the last invoice
NextPeriod(last_start, last_end) ==
    LET period_duration == last_end - last_start + 1
        next_start == last_end + 1
        next_end == next_start + (period_duration - 1)
    IN  [period_duration |-> period_duration,
         next_start |-> next_start,
         next_end |-> IF CivilFromDays(next_end).month # CivilFromDays(next_start).month
                      THEN LastDayOfMonth(next_start)
                      ELSE next_end]

\* the sum of f over the set S of integers, smallest first
RECURSIVE SumOver(_, _)
SumOver(f, S) ==
    IF S = {}
    THEN 0
    ELSE f[First(S)] + SumOver(f, S \ {First(S)})

\* the sum of f over the days lo .. hi (split in halves: a period may be a
\* year long)
RECURSIVE SumDays(_, _, _)
SumDays(f, lo, hi) ==
    IF lo > hi
    THEN 0
    ELSE IF lo = hi
    THEN f[lo]
    ELSE LET mid == (lo + hi) \div 2
         IN  SumDays(f, lo, mid) + SumDays(f, mid + 1, hi)

\* rate of a fixed tariff for an hour: the period rate, else fixed_rate
FixedRateFor(c, hour, is_weekday) ==
    LET p == GetPeriodForHour(c, hour, is_weekday)
    IN  IF p.rate # None
        THEN Val(p.rate)
        ELSE IF c.fixed_rate # None THEN Val(c.fixed_rate) ELSE 0

\* tariff_calculator.calculate_prices([price], target)[0]["price_per_kwh"]
\* for a price record of coordinator.data: its price, in 1e-6 EUR/kWh, is
\* the market price the calculator starts from
Recalculated(c, price, target, today) ==
    CalculatePricesOf(c,
        <<[start_time |-> price.start_time,
           price_per_kwh |-> price.price_per_kwh * 10]>>,
        Some(target), today).prices[1].price_per_kwh

\* calculate_prices on the sample record at midnight of the day with the
\* average of the price list, for a market tariff
EstimatedPrice(c, prices) ==
    LET total == SumPrices(prices, DOMAIN prices)
        discounted ==
            /\ c.discount_start_hour # None
            /\ c.discount_end_hour # None
            /\ c.discount_percentage # None
            /\ Val(c.discount_start_hour) <= 0
            /\ 0 < Val(c.discount_end_hour)
    IN  IF discounted
        THEN RoundHalfEven(total * (100 - Val(c.discount_percentage)),
                           Len(prices) * 100)
        ELSE RoundHalfEven(total, Len(prices))

\* the element of a set of one element; a value bound by a set {v} is
\* computed once, where a LET definition is computed at every use
Only(S) == CHOOSE r \in S : TRUE

\* _calculate_daily_energy_cost from "if daily_consumption == 0.0" on
EnergyCostOfHours(c, hourly_consumption, prices, target, today) ==
    LET hours == DOMAIN hourly_consumption
        daily == SumOver(hourly_consumption, hours)
        is_weekday == Weekday(target) < 5
        matched == {h \in hours : PricesForHour(prices, target, h) # {}}
    IN  IF daily = 0
        THEN 0
        ELSE IF c.pricing_model = PRICING_MODEL_FIXED
        THEN SumOver([h \in hours |->
                         hourly_consumption[h] * FixedRateFor(c, h, is_weekday)],
                     hours)
        ELSE IF matched # {}
        THEN SumOver([h \in matched |->
                         hourly_consumption[h]
                             * Recalculated(c,
                                   prices[First(PricesForHour(prices, target, h))],
                                   target, today)
                             * 10],
                     matched)
        ELSE IF prices # << >>
        THEN daily * EstimatedPrice(c, prices) * 10
        ELSE 0

\* _calculate_daily_energy_cost(target, consumption, prices)
CalculateDailyEnergyCost(c, consumption, prices, target, today) ==
    Only({EnergyCostOfHours(c, hourly_consumption, prices, target, today) :
            hourly_consumption \in
                {HourlyConsumptionFrom(consumption, 1, target, << >>)}})

\* kWh of the records of the day "target"
ConsumptionOfDay(consumption, target) ==
    Only({SumOver(hourly_consumption, DOMAIN hourly_consumption) :
            hourly_consumption \in
                {HourlyConsumptionFrom(consumption, 1, target, << >>)}})

\* the projected energy cost of one remaining day
ProjectedDayCost(prices, tomorrow_prices, total_consumption_so_far, days_elapsed, check_date) ==
    LET all_prices == prices \o tomorrow_prices
        of_day == PricesForDate(all_prices, check_date)
    IN  IF of_day # {}
        THEN RoundHalfEven(total_consumption_so_far
                               * SumPrices(all_prices, of_day) * 10,
                           days_elapsed * Cardinality(of_day))
        ELSE IF prices # << >>
        THEN RoundHalfEven(total_consumption_so_far
                               * SumPrices(prices, DOMAIN prices) * 10,
                           days_elapsed * Len(prices))
        ELSE IF tomorrow_prices # << >>
        THEN RoundHalfEven(total_consumption_so_far
                               * SumPrices(tomorrow_prices, DOMAIN tomorrow_prices) * 10,
                           days_elapsed * Len(tomorrow_prices))
        ELSE 0

\* electricity_tax, vat and total for a base amount, as fractions of the unit
ApplyTaxes_VatOnBase(base_total, electricity_tax_rate, vat_rate) ==
    LET scale == electricity_tax_rate.den * vat_rate.den
        tax == base_total * electricity_tax_rate.num * vat_rate.den
        vat == base_total * electricity_tax_rate.den * vat_rate.num
    IN  [electricity_tax |-> [num |-> tax, den |-> scale],
         vat |-> [num |-> vat, den |-> scale],
         total |-> [num |-> base_total * scale + tax + vat, den |-> scale]]

ApplyTaxes(base_total, electricity_tax_rate, vat_rate) ==
    LET scale == electricity_tax_rate.den * vat_rate.den
        tax == base_total * electricity_tax_rate.num * vat_rate.den
        vat == (base_total * electricity_tax_rate.den
                    + base_total * electricity_tax_rate.num) * vat_rate.num
    IN  [electricity_tax |-> [num |-> tax, den |-> scale],
         vat |-> [num |-> vat, den |-> scale],
         total |-> [num |-> base_total * scale + tax + vat, den |-> scale]]

\* round(x, 2) of an amount, and of a fraction of the unit, in cents
RoundCents(x) == RoundHalfEven(x, 100000)

RoundCentsOf(q) == RoundHalfEven(q.num, q.den * 100000)

\* the last of the days first + day_offset of range(n) that are not after
\* "last" (the loops break there); first - 1 if there is none
LastDay(first, n, last) == IF first + n - 1 <= last THEN first + n - 1 ELSE last

\* native_value from "Calculate base total" on: the sensor that returns the
\* total; "sums" holds the five amounts of the base total
EstimateTotal(with_days, e, sums) ==
    LET base_total == sums.actual_energy_cost + sums.projected_energy_cost
                          + sums.power_cost_total + sums.management_fee
                          + sums.other_concepts
    IN  Only({[with_days EXCEPT
                 !.returned = Some(Some(taxed.total)),
                 !.estimated_breakdown =
                     Some([actual_energy_cost |-> RoundCents(sums.actual_energy_cost),
                           projected_energy_cost |-> RoundCents(sums.projected_energy_cost),
                           power_cost |-> RoundCents(sums.power_cost_total),
                           management_fee |-> RoundCents(sums.management_fee),
                           other_concepts |-> RoundCents(sums.other_concepts),
                           base_total |-> RoundCents(base_total),
                           electricity_tax |-> RoundCentsOf(taxed.electricity_tax),
                           vat |-> RoundCentsOf(taxed.vat),
                           total |-> RoundCentsOf(taxed.total)]),
                 !.terms =
                     Some([sums |-> sums,
                           base_total |-> base_total,
                           electricity_tax |-> taxed.electricity_tax,
                           vat |-> taxed.vat,
                           total |-> taxed.total])] :
              taxed \in {ApplyTaxes(base_total, e.electricity_tax_rate, e.vat_rate)}})

\* native_value from "Project future energy costs" to "Calculate other
\* concepts": the five amounts, with the days they were summed over
EstimateSums(d, e, c, today, p, days, so_far) ==
    LET remaining == (today + 1) .. LastDay(today + 1, days.remaining, p.next_end)
        power_days == IF e.power_kw = None
                      THEN {}
                      ELSE p.next_start .. (p.next_start + p.period_duration - 1)
    IN  [elapsed |-> so_far.elapsed,
         actual_energy_cost |-> so_far.actual_energy_cost,
         total_consumption_so_far |-> so_far.total_consumption_so_far,
         projected_energy_cost |->
            SumDays([x \in remaining |->
                        ProjectedDayCost(d.today_prices, d.tomorrow_prices,
                                         so_far.total_consumption_so_far,
                                         days.elapsed, x)],
                    today + 1, LastDay(today + 1, days.remaining, p.next_end)),
         power_days |-> power_days,
         power_cost_total |->
            IF e.power_kw = None
            THEN 0
            ELSE SumDays([x \in power_days |->
                             CalculatePowerCostOf(c, Val(e.power_kw), Some(x),
                                                  today).total_cost * 10],
                         p.next_start, p.next_start + p.period_duration - 1),
         management_fee |-> IF e.management_fee_monthly = None
                            THEN 0
                            ELSE Val(e.management_fee_monthly),
         other_concepts |-> IF e.other_concepts_rate = None
                            THEN 0
                            ELSE Val(e.other_concepts_rate) * p.period_duration]

\* the loop over range(days_elapsed): the days, their energy cost and their
\* consumption
ElapsedSoFar(d, c, today, p, days) ==
    LET last == LastDay(p.next_start, days.elapsed, today)
        elapsed == p.next_start .. last
    IN  [elapsed |-> elapsed,
         actual_energy_cost |->
            SumDays([x \in elapsed |->
                        CalculateDailyEnergyCost(c, d.consumption,
                                                 d.today_prices, x, today)],
                    p.next_start, last),
         total_consumption_so_far |->
            SumDays([x \in elapsed |-> ConsumptionOfDay(d.consumption, x)],
                    p.next_start, last)]

\* days_elapsed and days_remaining
DaysOfPeriod(p, today) ==
    IF today > p.next_end
    THEN [elapsed |-> p.period_duration, remaining |-> 0]
    ELSE [elapsed |-> today - p.next_start + 1, remaining |-> p.next_end - today]

\* native_value from "self._period_start = next_start" on, for the period p
EstimatePeriod(reset, d, e, c, today, p, days) ==
    LET with_period == [reset EXCEPT !.period_start = Some(p.next_start),
                                     !.period_end = Some(p.next_end)]
        with_days == [with_period EXCEPT !.days_elapsed = days.elapsed,
                                         !.days_remaining = days.remaining]
    IN  IF today < p.next_start
        THEN with_period
        ELSE IF days.elapsed <= 0
        THEN with_days
        ELSE Only({EstimateTotal(with_days, e, sums) :
                     sums \in {Only({EstimateSums(d, e, c, today, p, days, so_far) :
                                 so_far \in {ElapsedSoFar(d, c, today, p, days)}})}})

\* native_value from "Calculate next period" on, for parsed invoice dates;
\* "reset" is the sensor after the reset of its state
EstimateNextInvoice(reset, d, e, c, today, last_start, last_end) ==
    Only({Only({EstimatePeriod(reset, d, e, c, today, p, days) :
                  days \in {DaysOfPeriod(p, today)}}) :
            p \in {NextPeriod(last_start, last_end)}})

\* the sensor after "Reset state"
ResetState_KeepsLast(self) == self

ResetState(self) ==
    [self EXCEPT !.estimated_breakdown = None,
                 !.period_start = None,
                 !.period_end = None,
                 !.days_elapsed = 0,
                 !.days_remaining = 0,
                 !.terms = None]

\* native_value of the next invoice sensor: the sensor after the read
NextInvoiceNativeValue(self, d, success, e, c, today) ==
    LET reset == [ResetState(self) EXCEPT !.returned = Some(None)]
    IN  IF ~HasData(d, success)
        THEN [self EXCEPT !.returned = Some(None)]
        ELSE IF d.billing = None \/ d.consumption = << >> \/ d.today_prices = << >>
        THEN reset
        ELSE IF Val(d.billing).last_invoice = None
        THEN reset
        ELSE LET last_invoice == Val(Val(d.billing).last_invoice)
             IN  IF last_invoice.start = None \/ last_invoice.end = None
                 THEN reset
                 ELSE LET last_start == ParseInvoiceDate(Val(last_invoice.start))
                          last_end == ParseInvoiceDate(Val(last_invoice.end))
                      IN  IF last_start = None \/ last_end = None
                          THEN reset
                          ELSE EstimateNextInvoice(reset, d, e, c, today,
                                                   Val(last_start), Val(last_end))

\* extra_state_attributes of the next invoice sensor; an absent key is None
NextInvoiceAttributes(self) ==
    [period_start |-> self.period_start,
     period_end |-> self.period_end,
     days_elapsed |-> self.days_elapsed,
     days_remaining |-> self.days_remaining,
     breakdown |-> self.estimated_breakdown]

---------------------------------------------------------------------------
(* coordinator.py: _merge_credits_data                                      *)
(*                                                                         *)
(* A credit record is [id, createdAt, amount, reasonCode]; id and          *)
(* createdAt are strings or missing (None), amount is in units of 0.1      *)
(* cent.  A Python dict that keeps insertion order is a sequence of        *)
(* [key, value] entries without repeated keys.  The key of a record is its *)
(* id or, without id, its createdAt string; the two kinds are kept apart   *)
(* by a tag (no id is spelled like a timestamp).                           *)

CREDIT_REASON_SUN_CLUB == "SUN_CLUB"

CREDIT_REASON_SUN_CLUB_POWER_UP == "SUN_CLUB_POWER_UP"

\* the reason codes that start with CREDIT_REASON_SUN_CLUB_POWER_UP
StartsWithPowerUp(code) ==
    code \in {"SUN_CLUB_POWER_UP", "SUN_CLUB_POWER_UP_EVENT"}

\* d[key] = value
DictPut(d, key, value) ==
    IF \E i \in DOMAIN d : d[i].key = key
    THEN [i \in DOMAIN d |->
             IF d[i].key = key THEN [key |-> key, value |-> value] ELSE d[i]]
    ELSE Append(d, [key |-> key, value |-> value])

\* list(d.values())
DictValues(d) == [i \in DOMAIN d |-> d[i].value]

\* credit.get("id"), else credit.get("createdAt"); None: the record is dropped
CreditKey(credit) ==
    IF credit.id # None
    THEN Some(<<"id", Val(credit.id)>>)
    ELSE IF credit.createdAt # None
    THEN Some(<<"createdAt", Val(credit.createdAt)>>)
    ELSE None

\* one of the two loops that fill merged_credits_dict, from record i on
RECURSIVE AddCredits(_, _, _)
AddCredits(d, credits, i) ==
    IF i > Len(credits)
    THEN d
    ELSE LET key == CreditKey(credits[i])
         IN  AddCredits(IF key = None THEN d ELSE DictPut(d, Val(key), credits[i]),
                        credits, i + 1)

\* sum(float(c.get("amount", 0)) / 100 for c in credits_list), in 0.1 cent
RECURSIVE SumAmounts(_, _)
SumAmounts(credits, i) ==
    IF i > Len(credits)
    THEN 0
    ELSE credits[i].amount + SumAmounts(credits, i + 1)

\* round(total, 2) of an amount in 0.1 cent, result in cents
Round2(x) == RoundHalfEven(x, 10)

\* datetime.fromisoformat(createdAt).astimezone(Madrid) as a wall-clock
\* instant in half seconds since day 0 00:00, None when the string does not
\* parse; a createdAt is [day, hour, tz, half_seconds], half_seconds the
\* part of the time below the hour
CreatedAt(credit) ==
    IF credit.createdAt = None
    THEN None
    ELSE LET dt == ParseDatetimeToMadrid(Val(credit.createdAt))
         IN  IF dt = None
             THEN None
             ELSE Some((Val(dt).day * 24 + Val(dt).hour) * 7200
                           + Val(credit.createdAt).half_seconds)

\* midnight of a day as an instant in half seconds
Midnight(day) == day * 24 * 7200

\* first day of the month of a date
MonthStart(day) ==
    LET c == CivilFromDays(day) IN DaysFromCivil(c.year, c.month, 1)

\* the sub-list of the records that are in the set keep, in order
RECURSIVE SelectCredits(_, _, _)
SelectCredits(credits, i, keep) ==
    IF i > Len(credits)
    THEN << >>
    ELSE (IF credits[i] \in keep THEN <<credits[i]>> ELSE << >>)
             \o SelectCredits(credits, i + 1, keep)

\* _merge_credits_data(recent_credits, historical_credits) at the date today:
\* the returned dict ({} is None)
MergeCreditsData(recent, historical, today) ==
    IF historical = << >>
    THEN recent
    ELSE LET recent_credits_list == IF recent = None THEN << >> ELSE Val(recent).credits
             merged_credits_dict ==
                 AddCredits(AddCredits(<< >>, historical, 1), recent_credits_list, 1)
             merged_credits_list == DictValues(merged_credits_dict)
             codes == {merged_credits_list[i].reasonCode : i \in DOMAIN merged_credits_list}
             merged == ToSet(merged_credits_list)
             credits_by_reason_code ==
                 [code \in codes |->
                     SelectCredits(merged_credits_list, 1,
                                   {c \in merged : c.reasonCode = code})]
             totals_by_reason_code ==
                 [code \in codes |-> SumAmounts(credits_by_reason_code[code], 1)]
             current_month_start == Midnight(MonthStart(today))
             last_month_start == Midnight(MonthStart(MonthStart(today) - 1))
             last_month_end == current_month_start - 2
             in_current_month ==
                 {c \in merged :
                     /\ CreatedAt(c) # None
                     /\ Val(CreatedAt(c)) >= current_month_start}
             in_last_month ==
                 {c \in merged :
                     /\ CreatedAt(c) # None
                     /\ ~(Val(CreatedAt(c)) >= current_month_start)
                     /\ last_month_start <= Val(CreatedAt(c))
                     /\ Val(CreatedAt(c)) <= last_month_end}
             power_up == {code \in codes : StartsWithPowerUp(code)}
             RECURSIVE SumCodes(_)
             SumCodes(S) ==
                 IF S = {}
                 THEN 0
                 ELSE LET code == CHOOSE x \in S : TRUE
                      IN  totals_by_reason_code[code] + SumCodes(S \ {code})
         IN  Some([credits |-> merged_credits_list,
                   by_reason_code |-> credits_by_reason_code,
                   totals_by_reason_code |->
                       [code \in codes |-> Round2(totals_by_reason_code[code])],
                   totals |->
                       [sun_club |->
                            IF CREDIT_REASON_SUN_CLUB \in codes
                            THEN Round2(totals_by_reason_code[CREDIT_REASON_SUN_CLUB])
                            ELSE 0,
                        sun_club_power_up |-> Round2(SumCodes(power_up)),
                        current_month |->
                            Round2(SumAmounts(SelectCredits(merged_credits_list, 1,
                                                            in_current_month), 1)),
                        last_month |->
                            Round2(SumAmounts(SelectCredits(merged_credits_list, 1,
                                                            in_last_month), 1)),
                        total |-> Round2(SumAmounts(merged_credits_list, 1))]])

---------------------------------------------------------------------------
(* sensor.py: OctopusEnergyESMonthlyConsumptionSensor                      *)

\* the month key (year, month) of a day
MonthKey(day) == <<CivilFromDays(day).year, CivilFromDays(day).month>>

\* the order of the month keys
MonthOrdinal(key) == key[1] * 12 + key[2]

\* all_months.sort(reverse=True) of a set of month keys
RECURSIVE SortedMonthsReverse(_)
SortedMonthsReverse(S) ==
    IF S = {}
    THEN << >>
    ELSE LET last == CHOOSE x \in S :
                         \A y \in S : MonthOrdinal(y) <= MonthOrdinal(x)
         IN  <<last>> \o SortedMonthsReverse(S \ {last})

\* _group_consumption_by_month: all_months (the totals are not read by the
\* sensors modelled here); the months are those of the dated records
AllMonths(daily_totals) ==
    SortedMonthsReverse({MonthKey(day) : day \in DOMAIN daily_totals})

\* the sensor after __init__; "seen" is an observer: the consumption list
\* and the date of the last read
NewMonthlyConsumption ==
    [returned |-> None,
     seen |-> None,
     consumption_month |-> None,
     is_current_month |-> FALSE,
     data_available_until |-> None,
     last_monthly_update |-> None,
     cumulative_monthly_total |-> 0,
     weekly_breakdown |-> << >>]

\* _get_week_start
GetWeekStart(target) == target - Weekday(target)

\* week_num of check_date in the month that starts on month_start
WeekNum(check_date, month_start) ==
    ((GetWeekStart(check_date) - month_start) \div 7) + 1

\* one of the two loops over the days lo .. hi of a month: the pair
\* [cumulative_total, weekly_breakdown] after it
RECURSIVE SumMonthDays(_, _, _, _, _)
SumMonthDays(daily_totals, month_start, lo, hi, acc) ==
    IF lo > hi
    THEN acc
    ELSE SumMonthDays(daily_totals, month_start, lo + 1, hi,
             IF lo \in DOMAIN daily_totals
             THEN [cumulative_total |->
                       acc.cumulative_total + daily_totals[lo],
                   weekly_breakdown |->
                       DictAdd(acc.weekly_breakdown, WeekNum(lo, month_start),
                               daily_totals[lo])]
             ELSE acc)

\* first day of the month after the month of a day
NextMonthStart(day) ==
    LET c == CivilFromDays(day)
    IN  IF c.month = 12
        THEN DaysFromCivil(c.year + 1, 1, 1)
        ELSE DaysFromCivil(c.year, c.month + 1, 1)

\* native_value from "cumulative_total = 0.0" on
MonthlyRecompute(self, daily_totals, all_months, today) ==
    LET month_start == MonthStart(today)
        current ==
            Only({acc : acc \in
                {SumMonthDays(daily_totals, month_start, month_start, today,
                              [cumulative_total |-> 0, weekly_breakdown |-> << >>])}})
        fallback == current.cumulative_total = 0 /\ all_months # << >>
        recent_start == DaysFromCivil(all_months[1][1], all_months[1][2], 1)
        result ==
            Only({acc : acc \in
                {IF fallback
                 THEN SumMonthDays(daily_totals, recent_start, recent_start,
                                   NextMonthStart(recent_start) - 1, current)
                 ELSE current}})
    IN  [self EXCEPT
            !.returned = Some(Some(Round3(result.cumulative_total))),
            !.consumption_month =
                Some(IF fallback THEN all_months[1] ELSE MonthKey(today)),
            !.is_current_month = ~fallback,
            !.data_available_until = Some(all_months[1]),
            !.last_monthly_update = Some(GetWeekStart(today)),
            !.cumulative_monthly_total = result.cumulative_total,
            !.weekly_breakdown =
                [k \in DOMAIN result.weekly_breakdown |->
                    Round3(result.weekly_breakdown[k])]]

\* the sensor recomputes at every read
MonthlyShouldUpdate_Always(self, today) == TRUE

\* should_update
MonthlyShouldUpdate(self, today) ==
    \/ self.last_monthly_update = None
    \/ self.last_monthly_update # Some(GetWeekStart(today))

\* the attributes after a read without consumption
MonthlyCleared(self) ==
    [self EXCEPT !.returned = Some(None),
                 !.consumption_month = None,
                 !.is_current_month = FALSE,
                 !.data_available_until = None,
                 !.cumulative_monthly_total = 0,
                 !.weekly_breakdown = << >>]

\* native_value: the sensor after a read
MonthlyConsumptionNativeValue(self, d, success, today) ==
    IF ~HasData(d, success)
    THEN [self EXCEPT !.returned = Some(None)]
    ELSE IF d.consumption = << >>
    THEN MonthlyCleared(self)
    ELSE Only({IF g.all_dates = << >>
               THEN MonthlyCleared(self)
               ELSE IF ~MonthlyShouldUpdate(self, today)
               THEN [self EXCEPT
                        !.data_available_until =
                            Some(AllMonths(g.daily_totals)[1]),
                        !.returned =
                            Some(Some(Round3(self.cumulative_monthly_total)))]
               ELSE MonthlyRecompute(self, g.daily_totals,
                                     AllMonths(g.daily_totals), today) :
               g \in {GroupConsumptionByDate(d.consumption)}})

---------------------------------------------------------------------------
(* sensor.py: OctopusEnergyESWeeklyConsumptionSensor                       *)

\* the sensor after __init__; "seen" is an observer: the consumption list
\* and the date of the last read, whether should_update held at that read,
\* and what the recomputation of that date returned (None: no total was
\* recomputed on that date)
NewWeeklyConsumption ==
    [returned |-> None,
     seen |-> None,
     consumption_week_start |-> None,
     consumption_week_end |-> None,
     is_current_week |-> FALSE,
     data_available_until |-> None,
     last_weekly_update |-> None,
     cumulative_weekly_total |-> 0,
     daily_breakdown |-> << >>]

\* the loop over the seven days from week_start, from position i on: the
\* triple [cumulative_total, daily_breakdown, has_data]; the keys of the
\* breakdown are the positions 0 .. 6 (day_names[i]); days after "last" are
\* skipped
RECURSIVE SumWeekDays(_, _, _, _, _)
SumWeekDays(daily_totals, week_start, i, last, acc) ==
    IF i > 6
    THEN acc
    ELSE SumWeekDays(daily_totals, week_start, i + 1, last,
             IF week_start + i <= last /\ week_start + i \in DOMAIN daily_totals
             THEN [cumulative_total |->
                       acc.cumulative_total + daily_totals[week_start + i],
                   daily_breakdown |->
                       [k \in DOMAIN acc.daily_breakdown \cup {i} |->
                           IF k = i
                           THEN Round3(daily_totals[week_start + i])
                           ELSE acc.daily_breakdown[k]],
                   has_data |-> TRUE]
             ELSE acc)

\* the attributes after a read without consumption
WeeklyCleared(self) ==
    [self EXCEPT !.returned = Some(None),
                 !.consumption_week_start = None,
                 !.consumption_week_end = None,
                 !.is_current_week = FALSE,
                 !.data_available_until = None,
                 !.cumulative_weekly_total = 0,
                 !.daily_breakdown = << >>]

NoWeek == [cumulative_total |-> 0, daily_breakdown |-> << >>, has_data |-> FALSE]

\* native_value from "cumulative_total = 0.0" on
WeeklyRecompute(self, g, today) ==
    LET with_until == [self EXCEPT !.data_available_until = Some(g.all_dates[1])]
        current_week_start == today - 6
        current ==
            Only({acc : acc \in
                {SumWeekDays(g.daily_totals, current_week_start, 0, today, NoWeek)}})
        most_recent_week_end == g.all_dates[1]
        most_recent_week_start == most_recent_week_end - 6
        recent ==
            Only({acc : acc \in
                {SumWeekDays(g.daily_totals, most_recent_week_start, 0,
                             most_recent_week_end, NoWeek)}})
    IN  IF current.has_data /\ current.cumulative_total > 0
        THEN [with_until EXCEPT
                 !.returned = Some(Some(Round3(current.cumulative_total))),
                 !.consumption_week_start = Some(current_week_start),
                 !.consumption_week_end = Some(today),
                 !.is_current_week = TRUE,
                 !.last_weekly_update = Some(today),
                 !.cumulative_weekly_total = current.cumulative_total,
                 !.daily_breakdown = current.daily_breakdown]
        ELSE IF recent.cumulative_total > 0
        THEN [with_until EXCEPT
                 !.returned = Some(Some(Round3(recent.cumulative_total))),
                 !.consumption_week_start = Some(most_recent_week_start),
                 !.consumption_week_end = Some(most_recent_week_end),
                 !.is_current_week = FALSE,
                 !.last_weekly_update = Some(today),
                 !.cumulative_weekly_total = recent.cumulative_total,
                 !.daily_breakdown = recent.daily_breakdown]
        ELSE [with_until EXCEPT
                 !.returned = Some(None),
                 !.consumption_week_start = None,
                 !.consumption_week_end = None,
                 !.is_current_week = FALSE,
                 !.cumulative_weekly_total = 0,
                 !.daily_breakdown = << >>]

\* the sensor recomputes at every read
WeeklyShouldUpdate_Always(self, today) == TRUE

\* should_update
WeeklyShouldUpdate(self, today) ==
    \/ self.last_weekly_update = None
    \/ self.last_weekly_update # Some(today)

\* native_value: the sensor after a read
WeeklyConsumptionNativeValue(self, d, success, today) ==
    IF ~HasData(d, success)
    THEN [self EXCEPT !.returned = Some(None)]
    ELSE IF d.consumption = << >>
    THEN WeeklyCleared(self)
    ELSE Only({IF g.all_dates = << >>
               THEN WeeklyCleared(self)
               ELSE IF ~WeeklyShouldUpdate(self, today)
               THEN [self EXCEPT
                        !.data_available_until = Some(g.all_dates[1]),
                        !.returned =
                            Some(Some(Round3(self.cumulative_weekly_total)))]
               ELSE WeeklyRecompute(self, g, today) :
               g \in {GroupConsumptionByDate(d.consumption)}})
---------------------------------------------------------------------------
(* coordinator.py: _merge_consumption_data                                  *)

\* the order of the ISO strings of two timestamps: by date and hour, and for
\* the same date and hour by the suffix ("" before "+02:00" before "Z");
\* a string that is no timestamp sorts after the timestamps of its day
SuffixRank(tz) ==
    IF tz = "naive" THEN 0
    ELSE IF tz = "+02:00" THEN 1
    ELSE IF tz = "Z" THEN 2
    ELSE 3

StringBefore(a, b) ==
    \/ a.day < b.day
    \/ a.day = b.day /\ a.hour < b.hour
    \/ a.day = b.day /\ a.hour = b.hour /\ SuffixRank(a.tz) < SuffixRank(b.tz)

\* one of the two loops that fill merged_dict, from item i on
RECURSIVE AddConsumption(_, _, _)
AddConsumption(d, items, i) ==
    IF i > Len(items)
    THEN d
    ELSE LET start_time == ItemTimeStr(items[i])
         IN  AddConsumption(IF start_time = None
                            THEN d
                            ELSE DictPut(d, Val(start_time), items[i]),
                            items, i + 1)

\* merged_list.sort(key=start_time or date) of records with distinct keys
RECURSIVE SortedByStartTime(_)
SortedByStartTime(S) ==
    IF S = {}
    THEN << >>
    ELSE LET first == CHOOSE x \in S :
                 \A y \in S \ {x} :
                     StringBefore(Val(ItemTimeStr(x)), Val(ItemTimeStr(y)))
         IN  <<first>> \o SortedByStartTime(S \ {first})

\* _merge_consumption_data(recent_consumption, historical_consumption)
MergeConsumptionData(recent_consumption, historical_consumption) ==
    IF historical_consumption = << >>
    THEN recent_consumption
    ELSE SortedByStartTime(ToSet(DictValues(
             AddConsumption(AddConsumption(<< >>, historical_consumption, 1),
                            recent_consumption, 1))))

---------------------------------------------------------------------------
(* coordinator.py: _async_update_data and _fetch_and_calculate_prices       *)
(*                                                                         *)
(* The coordinator runs without Octopus credentials (_octopus_client is    *)
(* None): consumption, billing, credits and account stay empty.            *)

MARKET_PUBLISH_HOUR == 14

\* the coordinator after __init__
NewCoordinator ==
    [_today_prices |-> << >>,
     _tomorrow_prices |-> << >>,
     _last_tomorrow_update |-> None]

\* the price source before anything is published for tomorrow
IdleSource == [published |-> FALSE]

\* the market prices the sources hold for a day: one record at local
\* midnight, 0.1 EUR/kWh
MarketPricesOf(day) ==
    <<[start_time |-> [day |-> day, hour |-> 0, tz |-> "+02:00"],
       price_per_kwh |-> 1000000]>>

\* _fetch_and_calculate_prices(target_date) when the sources answer with
\* "prices", with "empty" (the fallback source has nothing yet), when both
\* "fail", or when the call ends in an "error" raised outside the two
\* source lookups: [raised, prices]
FetchAndCalculate(self, c, target, today, answer) ==
    IF answer = "error"
    THEN [raised |-> TRUE, prices |-> << >>]
    ELSE IF answer = "fail"
    THEN IF target = None /\ self._today_prices # << >>
         THEN [raised |-> FALSE, prices |-> self._today_prices]
         ELSE IF target # None /\ self._tomorrow_prices # << >>
         THEN [raised |-> FALSE, prices |-> self._tomorrow_prices]
         ELSE [raised |-> TRUE, prices |-> << >>]
    ELSE IF answer = "empty"
    THEN [raised |-> FALSE, prices |-> << >>]
    ELSE [raised |-> FALSE,
          prices |-> CalculatePricesOf(c,
                         MarketPricesOf(IF target = None THEN today ELSE Val(target)),
                         target, today).prices]

\* every fetch result that did not raise replaces the cache
UpdateTodayPrices_AnyResult(self, fetched) ==
    IF fetched.raised
    THEN [self |-> self, update_failed |-> self._today_prices = << >>]
    ELSE [self |-> [self EXCEPT !._today_prices = fetched.prices],
          update_failed |-> FALSE]

\* "Update today's prices": the coordinator after the block, and whether
\* UpdateFailed was raised
UpdateTodayPrices(self, fetched) ==
    IF fetched.raised
    THEN [self |-> self, update_failed |-> self._today_prices = << >>]
    ELSE [self |-> IF fetched.prices # << >>
                   THEN [self EXCEPT !._today_prices = fetched.prices]
                   ELSE self,
          update_failed |-> FALSE]

\* the marker is not consulted: a fetch at every cycle from 14:00 on
ShouldUpdateTomorrow_EveryCycle(self, today, current_hour) ==
    current_hour >= MARKET_PUBLISH_HOUR

\* should_update_tomorrow
ShouldUpdateTomorrow(self, today, current_hour) ==
    /\ current_hour >= MARKET_PUBLISH_HOUR
    /\ \/ self._last_tomorrow_update = None
       \/ Val(self._last_tomorrow_update) < today

\* "Update tomorrow's prices" after a fetch was made
UpdateTomorrowPrices(self, fetched, today) ==
    IF fetched.raised
    THEN self
    ELSE [self EXCEPT !._tomorrow_prices = fetched.prices,
                      !._last_tomorrow_update = Some(today)]

\* the dict _async_update_data returns
CycleResult(self) ==
    [today_prices |-> self._today_prices,
     tomorrow_prices |-> self._tomorrow_prices,
     consumption |-> MergeConsumptionData(<< >>, << >>),
     billing |-> None,
     credits |-> MergeCreditsData(None, << >>, 0),
     account |-> None]
---------------------------------------------------------------------------
(* The sensors and the coordinator before any data arrived                  *)

EmptyData ==
    [today_prices |-> << >>,
     tomorrow_prices |-> << >>,
     consumption |-> << >>,
     billing |-> None,
     credits |-> None,
     account |-> None]

\* the rollup sensors, the coordinator and the consumption merge untouched
OthersIdle ==
    /\ monthly_consumption = NewMonthlyConsumption
    /\ weekly_consumption = NewWeeklyConsumption
    /\ coordinator = NewCoordinator
    /\ clock_hour = 0
    /\ cycle = None
    /\ source = IdleSource
    /\ consumption_data = << >>
    /\ historical_data = << >>
    /\ merged_consumption = None

SensorsIdle ==
    /\ data = EmptyData
    /\ last_update_success = TRUE
    /\ entry = None
    /\ grouped = None
    /\ daily_consumption = NewDailyConsumption
    /\ daily_cost = NewDailyCost
    /\ next_invoice = NewNextInvoice
    /\ recent_credits = None
    /\ historical_credits = << >>
    /\ merged_credits = None
    /\ OthersIdle

tariffVars == <<args, ctor, config, market_prices, calculated, warnings,
                power_kw, target_date, power_cost, probe>>

\* the tariff engine constructed from the arguments a and not called
TariffReady(a) ==
    /\ args = a
    /\ ctor = PostInit(a)
    /\ config = Some(a)
    /\ market_prices = << >>
    /\ calculated = None
    /\ warnings = {}
    /\ power_kw = 10
    /\ target_date = None
    /\ power_cost = None
    /\ probe = None

---------------------------------------------------------------------------
(* Inputs: the bounded sets the arguments are drawn from *)

\* longest market_prices list
MaxLen == 2

\* last day the wall clock reaches
MaxNow == 5

\* the wall clock starts on Friday 29 March 2024
FirstNow == 4

\* energy rates, in ticks: 0.1500005, 0.2000015, 0.15, 0.0800004 EUR/kWh
SomeFixedRate == Some(1500005)

SomeP1Rate == Some(2000015)

SomeP2Rate == Some(1500000)

SomeP3Rate == Some(800004)

BaseArgs ==
    [pricing_model |-> PRICING_MODEL_FIXED,
     time_structure |-> TIME_STRUCTURE_TIME_OF_USE,
     fixed_rate |-> SomeFixedRate,
     p1_rate |-> SomeP1Rate,
     p2_rate |-> SomeP2Rate,
     p3_rate |-> SomeP3Rate,
     p1_hours_weekdays |-> DEFAULT_P1_HOURS,
     p2_hours_weekdays |-> DEFAULT_P2_HOURS,
     p3_hours_weekdays |-> DEFAULT_P3_HOURS,
     power_p1_rate |-> None,
     power_p2_rate |-> None,
     solar_surplus_rate |-> None,
     management_fee_monthly |-> None,
     discount_start_hour |-> None,
     discount_end_hour |-> None,
     discount_percentage |-> None]

\* P1 lists: the default; with 8 added (also in P2); without 10; with 24
P1Options ==
    {DEFAULT_P1_HOURS,
     DEFAULT_P1_HOURS \o <<8>>,
     <<11, 12, 13, 18, 19, 20, 21>>,
     DEFAULT_P1_HOURS \o <<24>>}

\* P2 lists: the default; with 0 added (also in P3); without 23
P2Options ==
    {DEFAULT_P2_HOURS,
     DEFAULT_P2_HOURS \o <<0>>,
     <<8, 9, 14, 15, 16, 17, 22>>}

\* P3 lists: the default; with 10 added; every hour of the day
P3Options ==
    {DEFAULT_P3_HOURS,
     DEFAULT_P3_HOURS \o <<10>>,
     [i \in 1 .. 24 |-> i - 1]}

\* fixed time-of-use tariffs over every combination of the period lists
HourArgs ==
    {[BaseArgs EXCEPT !.p1_hours_weekdays = h1,
                      !.p2_hours_weekdays = h2,
                      !.p3_hours_weekdays = h3] :
        h1 \in P1Options, h2 \in P2Options, h3 \in P3Options}

\* fixed tariffs with rates present or absent
RateArgs ==
    {[BaseArgs EXCEPT !.time_structure = ts,
                      !.fixed_rate = fr,
                      !.p1_rate = pr[1], !.p2_rate = pr[2], !.p3_rate = pr[3]] :
        ts \in {TIME_STRUCTURE_SINGLE_RATE, TIME_STRUCTURE_TIME_OF_USE},
        fr \in {None, SomeFixedRate},
        pr \in {<<SomeP1Rate, SomeP2Rate, SomeP3Rate>>,
                <<SomeP1Rate, SomeP2Rate, None>>,
                <<None, None, None>>}}

\* unknown pricing model or time structure
ModelArgs ==
    {[BaseArgs EXCEPT !.pricing_model = "pvpc"],
     [BaseArgs EXCEPT !.time_structure = "hourly"]}

\* market tariffs over discount settings: percentage 0, 0.45, 1, 1.01, -0.01
DiscountArgs ==
    {[BaseArgs EXCEPT !.pricing_model = PRICING_MODEL_MARKET,
                      !.time_structure = TIME_STRUCTURE_SINGLE_RATE,
                      !.discount_percentage = dp,
                      !.discount_start_hour = ds,
                      !.discount_end_hour = de] :
        dp \in {None, Some(0), Some(45), Some(100), Some(101), Some(-1)},
        ds \in {None, Some(12), Some(24)},
        de \in {None, Some(18), Some(8), Some(-1)}}
    \cup {[BaseArgs EXCEPT !.pricing_model = PRICING_MODEL_MARKET,
                           !.discount_percentage = Some(45),
                           !.discount_start_hour = Some(0),
                           !.discount_end_hour = Some(23)]}

PriceArgs == HourArgs \cup RateArgs \cup ModelArgs \cup DiscountArgs

\* power rates 0.100001 and 0.025003 EUR/kW/day
SomePowerP1Rate == Some(100001)

SomePowerP2Rate == Some(25003)

\* tariffs with power rates present or absent, over period lists
PowerArgs ==
    {[BaseArgs EXCEPT !.p1_hours_weekdays = h[1],
                      !.p3_hours_weekdays = h[2],
                      !.power_p1_rate = pw[1],
                      !.power_p2_rate = pw[2]] :
        h \in {<<DEFAULT_P1_HOURS, DEFAULT_P3_HOURS>>,
               <<DEFAULT_P1_HOURS \o <<8>>, DEFAULT_P3_HOURS>>,
               <<DEFAULT_P1_HOURS \o <<10>>, DEFAULT_P3_HOURS>>,
               <<<<11, 12, 13, 18, 19, 20, 21>>, DEFAULT_P3_HOURS \o <<10>>>>,
               << <<>>, [i \in 1 .. 24 |-> i - 1]>>},
        pw \in {<<None, None>>, <<SomePowerP1Rate, None>>,
                <<SomePowerP1Rate, SomePowerP2Rate>>,
                <<Some(97000), Some(27000)>>}}

\* start times: every hour of Friday and of Saturday as naive strings, and
\* UTC strings around midnight and around the switch to summer time
Starts ==
    {[day |-> d, hour |-> h, tz |-> "naive"] : d \in {4, 5}, h \in Hours}
    \cup {[day |-> 4, hour |-> h, tz |-> "Z"] : h \in {10, 11, 17, 22, 23}}
    \cup {[day |-> 6, hour |-> h, tz |-> "Z"] : h \in {0, 1, 21, 22, 23}}
    \cup {[day |-> 5, hour |-> 23, tz |-> "Z"],
          [day |-> 6, hour |-> 23, tz |-> "+02:00"]}

\* market prices, in ticks: 0.20, -0.0500015, 0.1234565 EUR/kWh
MarketPriceValues == <<2000000, -500015, 1234565>>

\* the start time k hours after st, in the same notation
Shift(st, k) ==
    LET abs == st.day * 24 + st.hour + k
    IN  [day |-> abs \div 24, hour |-> abs % 24, tz |-> st.tz]

\* n records, one hour apart, forwards (dir = 1) or backwards (dir = -1)
HourlyList(st, n, dir, b) ==
    [i \in 1 .. n |->
        [start_time |-> Shift(st, dir * (i - 1)),
         price_per_kwh |-> MarketPriceValues[((b + i - 1) % 3) + 1]]]

ListsFrom(starts, maxlen) ==
    {HourlyList(st, n, dir, b) :
        st \in starts, n \in 0 .. maxlen, dir \in {1, -1}, b \in {0, 1}}

MarketPriceLists == ListsFrom(Starts, MaxLen)

\* power_kw 1.0 and 4.6 kW
PowerKws == {10, 46}

TargetDates == {None} \cup {Some(d) : d \in 0 .. 6}

\* the tariffs and start times of the repeated-call runs: fixed time-of-use,
\* fixed single-rate and market with a 45% discount in [12,18); Friday 17:00,
\* Saturday 10:00, and Sunday 22:00 UTC (Monday 00:00 in Madrid)
PureArgs ==
    {BaseArgs,
     [BaseArgs EXCEPT !.time_structure = TIME_STRUCTURE_SINGLE_RATE],
     [BaseArgs EXCEPT !.pricing_model = PRICING_MODEL_MARKET,
                      !.discount_percentage = Some(45),
                      !.discount_start_hour = Some(12),
                      !.discount_end_hour = Some(18)]}

PureStarts ==
    {[day |-> 4, hour |-> 17, tz |-> "naive"],
     [day |-> 5, hour |-> 10, tz |-> "naive"],
     [day |-> 6, hour |-> 22, tz |-> "Z"]}

\* what one run is given: constructor arguments and call arguments
Scenarios ==
    {[args |-> a, market_prices |-> <<>>, power_kw |-> 10, target_date |-> None] :
        a \in PriceArgs}
    \cup {[args |-> a, market_prices |-> mp, power_kw |-> 10, target_date |-> None] :
        a \in {x \in PriceArgs : PostInit(x) = "ok"}, mp \in MarketPriceLists}
    \cup {[args |-> a, market_prices |-> <<>>, power_kw |-> kw, target_date |-> d] :
        a \in PowerArgs, kw \in PowerKws, d \in TargetDates}

---------------------------------------------------------------------------
(* The state machine *)

Init ==
    /\ \E s \in Scenarios :
        /\ args = s.args
        /\ market_prices = s.market_prices
        /\ power_kw = s.power_kw
        /\ target_date = s.target_date
    /\ ctor = "pending"
    /\ config = None
    /\ calculated = None
    /\ warnings = {}
    /\ power_cost = None
    /\ now = FirstNow
    /\ probe = None
    /\ SensorsIdle

\* TariffConfig(**args): __post_init__ raises or the object exists
Construct ==
    /\ ctor = "pending"
    /\ ctor' = PostInit(args)
    /\ config' = IF PostInit(args) = "ok" THEN Some(args) ELSE None
    /\ UNCHANGED <<args, market_prices, calculated, warnings,
                   power_kw, target_date, power_cost, now, probe>>
    /\ UNCHANGED sensorVars

\* TariffCalculator(config).calculate_prices(market_prices, target_date)
Calculate ==
    /\ config # None
    /\ LET r == CalculatePricesOf(Val(config), market_prices, target_date, now)
       IN  /\ calculated' = Some(r.prices)
           /\ warnings' = r.warnings
    /\ UNCHANGED <<args, ctor, config, market_prices,
                   power_kw, target_date, power_cost, now>>
    /\ UNCHANGED sensorVars

CalculatePrices ==
    /\ Calculate
    /\ UNCHANGED probe

\* TariffCalculator(config).calculate_power_cost(power_kw, target_date)
CalculatePowerCost ==
    /\ config # None
    /\ power_cost' = Some(CalculatePowerCostOf(Val(config), power_kw, target_date, now))
    /\ UNCHANGED <<args, ctor, config, market_prices, calculated, warnings,
                   power_kw, target_date, now, probe>>
    /\ UNCHANGED sensorVars

\* the day changes
Tick ==
    /\ now < MaxNow
    /\ now' = now + 1
    /\ UNCHANGED <<args, ctor, config, market_prices, calculated, warnings,
                   power_kw, target_date, power_cost, probe>>
    /\ UNCHANGED sensorVars

Next ==
    \/ Construct
    \/ CalculatePrices
    \/ CalculatePowerCost
    \/ Tick

\* the caller replaces the market price list by a new one
Feed ==
    /\ config # None
    /\ \E mp \in ListsFrom(PureStarts, MaxLen) :
        /\ mp # market_prices
        /\ market_prices' = mp
    /\ calculated' = None
    /\ warnings' = {}
    /\ UNCHANGED <<args, ctor, config, power_kw, target_date, power_cost, now, probe>>
    /\ UNCHANGED sensorVars

\* calculate_prices, watched: the probe keeps the first call's input, output
\* and date, whether a call on another input followed it (between), and
\* whether after that the first input was calculated again on a later date
ObservedCalculatePrices ==
    /\ Calculate
    /\ probe' =
        IF probe = None
        THEN Some([input |-> market_prices,
                   output |-> Val(calculated'),
                   at |-> now,
                   between |-> FALSE,
                   again |-> FALSE])
        ELSE IF market_prices # Val(probe).input
        THEN Some([Val(probe) EXCEPT !.between = TRUE])
        ELSE Some([Val(probe) EXCEPT
                      !.again = @ \/ (Val(probe).between /\ now # Val(probe).at)])

InitPure ==
    /\ args \in PureArgs
    /\ market_prices \in ListsFrom(PureStarts, MaxLen)
    /\ power_kw = 10
    /\ target_date = None
    /\ ctor = "pending"
    /\ config = None
    /\ calculated = None
    /\ warnings = {}
    /\ power_cost = None
    /\ now = FirstNow
    /\ probe = None
    /\ SensorsIdle

NextPure ==
    \/ Construct
    \/ Feed
    \/ ObservedCalculatePrices
    \/ Tick

\* repeated calculate_prices calls over changing inputs and dates
SpecPure == InitPure /\ [][NextPure]_vars

Spec == Init /\ [][Next]_vars

---------------------------------------------------------------------------
(* The consumption sensors over a fixed coordinator result                  *)

\* longest consumption list
MaxItems == 3

\* ISO strings of the consumption records: around Sunday 31 March 2024 (day
\* 6), on both sides of midnight and of the clock change
StampLateSaturdayUtc == Some([day |-> 5, hour |-> 23, tz |-> "Z"])

StampNaiveSunday == Some([day |-> 6, hour |-> 0, tz |-> "naive"])

StampOffsetSunday == Some([day |-> 6, hour |-> 1, tz |-> "+02:00"])

StampLateSundayUtc == Some([day |-> 6, hour |-> 23, tz |-> "Z"])

StampFriday == Some([day |-> 4, hour |-> 10, tz |-> "Z"])

StampInvalid == Some([day |-> 6, hour |-> 12, tz |-> "invalid"])

DateSaturday == Some([day |-> 5, hour |-> 0, tz |-> "naive"])

\* the records the lists are made of; consumption 1.2345, 0.0005, 1.0006,
\* 0.25 and 2 kWh
ConsumptionItems ==
    {[start_time |-> StampLateSaturdayUtc, date |-> None, consumption |-> 12345],
     [start_time |-> StampNaiveSunday, date |-> None, consumption |-> 5],
     [start_time |-> StampOffsetSunday, date |-> DateSaturday, consumption |-> 10006],
     [start_time |-> StampLateSundayUtc, date |-> None, consumption |-> 2500],
     [start_time |-> StampFriday, date |-> None, consumption |-> 20000],
     [start_time |-> StampInvalid, date |-> DateSaturday, consumption |-> 12345],
     [start_time |-> None, date |-> DateSaturday, consumption |-> 5],
     [start_time |-> None, date |-> None, consumption |-> 20000]}

RECURSIVE SeqsUpTo(_, _)
SeqsUpTo(S, n) ==
    IF n = 0
    THEN {<< >>}
    ELSE LET shorter == SeqsUpTo(S, n - 1)
         IN  shorter \cup {Append(s, x) : s \in shorter, x \in S}

\* the days the wall clock is drawn from: Saturday 30 March to Tuesday 2 April
ConsumptionNows == 5 .. 8

InitConsumption ==
    /\ TariffReady(BaseArgs)
    /\ now \in ConsumptionNows
    /\ \E c \in SeqsUpTo(ConsumptionItems, MaxItems) :
        data = [EmptyData EXCEPT !.consumption = c]
    /\ last_update_success \in BOOLEAN
    /\ entry = None
    /\ grouped = None
    /\ daily_consumption = NewDailyConsumption
    /\ daily_cost = NewDailyCost
    /\ next_invoice = NewNextInvoice
    /\ recent_credits = None
    /\ historical_credits = << >>
    /\ merged_credits = None
    /\ OthersIdle

\* a caller runs _group_consumption_by_date(data["consumption"])
GroupByDate ==
    /\ grouped = None
    /\ grouped' = Some(GroupConsumptionByDate(data.consumption))
    /\ UNCHANGED <<tariffVars, otherVars, now, data, last_update_success, entry,
                   daily_consumption, daily_cost, next_invoice,
                   recent_credits, historical_credits, merged_credits>>

\* Home Assistant reads the state of the daily consumption sensor
ReadDailyConsumption ==
    /\ daily_consumption' =
           DailyConsumptionNativeValue(daily_consumption, data,
                                       last_update_success, now)
    /\ UNCHANGED <<tariffVars, otherVars, now, data, last_update_success, entry, grouped,
                   daily_cost, next_invoice,
                   recent_credits, historical_credits, merged_credits>>

NextConsumption ==
    \/ GroupByDate
    \/ ReadDailyConsumption

SpecConsumption == InitConsumption /\ [][NextConsumption]_vars

---------------------------------------------------------------------------
(* The daily cost sensor over a fixed coordinator result                    *)

\* longest consumption list and longest price list of the cost sensors
MaxCostItems == 2

MaxPrices == 2

\* Sunday 31 March 2024 (day 6) 12:00 and 13:00 Madrid time, written with
\* two offsets, and the same hours of Saturday
NoonSundayUtc == [day |-> 6, hour |-> 10, tz |-> "Z"]

NoonSundayOffset == [day |-> 6, hour |-> 12, tz |-> "+02:00"]

OneSundayUtc == [day |-> 6, hour |-> 11, tz |-> "Z"]

NoonSaturdayUtc == [day |-> 5, hour |-> 11, tz |-> "Z"]

OneSaturdayUtc == [day |-> 5, hour |-> 12, tz |-> "Z"]

\* consumption records of 1.5, 0.5, 10.6 and 2 Wh (small, so that the
\* products with the prices stay within 32 bits)
CostConsumptionItems ==
    {[start_time |-> Some(NoonSundayUtc), date |-> None, consumption |-> 15],
     [start_time |-> Some(NoonSundayOffset), date |-> None, consumption |-> 5],
     [start_time |-> Some(OneSundayUtc), date |-> None, consumption |-> 106],
     [start_time |-> Some(NoonSaturdayUtc), date |-> None, consumption |-> 20]}

\* calculated prices 0.11, 0.2, 0.095 and 0.3 EUR/kWh
CostPrices ==
    {[start_time |-> NoonSundayUtc, price_per_kwh |-> 110000],
     [start_time |-> NoonSundayOffset, price_per_kwh |-> 200000],
     [start_time |-> OneSundayUtc, price_per_kwh |-> 95000],
     [start_time |-> OneSaturdayUtc, price_per_kwh |-> 300000]}

\* what the sensors read of the config entry: contracted power 4.6 kW and a
\* monthly fee of 0.00399 EUR (in 1e-10 EUR), or neither
CostEntries ==
    {[power_kw |-> None, management_fee_monthly |-> None],
     [power_kw |-> Some(46), management_fee_monthly |-> Some(39900000)]}

InitDailyCost ==
    /\ TariffReady([BaseArgs EXCEPT !.power_p1_rate = SomePowerP1Rate,
                                    !.power_p2_rate = SomePowerP2Rate])
    /\ now \in {6, 7}
    /\ \E c \in SeqsUpTo(CostConsumptionItems, MaxCostItems),
          p \in SeqsUpTo(CostPrices, MaxPrices) :
        data = [EmptyData EXCEPT !.consumption = c, !.today_prices = p]
    /\ last_update_success \in BOOLEAN
    /\ entry \in CostEntries
    /\ grouped = None
    /\ daily_consumption = NewDailyConsumption
    /\ daily_cost = NewDailyCost
    /\ next_invoice = NewNextInvoice
    /\ recent_credits = None
    /\ historical_credits = << >>
    /\ merged_credits = None
    /\ OthersIdle

\* Home Assistant reads the state of the daily cost sensor
ReadDailyCost ==
    /\ daily_cost' = DailyCostNativeValue(daily_cost, data, last_update_success,
                                          entry, Val(config), now)
    /\ UNCHANGED <<tariffVars, otherVars, now, data, last_update_success, entry, grouped,
                   daily_consumption, next_invoice,
                   recent_credits, historical_credits, merged_credits>>

NextDailyCost == ReadDailyCost

SpecDailyCost == InitDailyCost /\ [][NextDailyCost]_vars

---------------------------------------------------------------------------
(* The next invoice sensor over the results of the coordinator              *)

\* ISO date strings of invoices
IsoDate(y, m, d) == [day |-> DaysFromCivil(y, m, d), tz |-> "date"]

NotADate == [day |-> 0, tz |-> "invalid"]

Invoice(s, e) == Some([start |-> Some(s), end |-> Some(e)])

\* last invoices: the weeks from 20 and from 10 February 2025 and from 22
\* December 2024, the single day 26 February 2025, and the year 2024
InvoiceLateFebruary == Invoice(IsoDate(2025, 2, 20), IsoDate(2025, 2, 26))

InvoiceMidFebruary == Invoice(IsoDate(2025, 2, 10), IsoDate(2025, 2, 16))

InvoiceLateDecember == Invoice(IsoDate(2024, 12, 22), IsoDate(2024, 12, 28))

InvoiceOneDay == Invoice(IsoDate(2025, 2, 26), IsoDate(2025, 2, 26))

InvoiceYear == Invoice(IsoDate(2024, 1, 1), IsoDate(2024, 12, 31))

\* invoices without a usable period
BrokenInvoices ==
    {None,
     Some([start |-> None, end |-> Some(IsoDate(2025, 2, 26))]),
     Some([start |-> Some(IsoDate(2025, 2, 20)), end |-> None]),
     Some([start |-> Some(NotADate), end |-> Some(IsoDate(2025, 2, 26))]),
     Some([start |-> Some(IsoDate(2025, 2, 20)), end |-> Some(NotADate)])}

\* a consumption record of kwh kWh in the hour that starts at hour h UTC of
\* the day (Madrid is one hour ahead in winter)
Consumed(y, m, d, h, kwh) ==
    [start_time |-> Some([day |-> DaysFromCivil(y, m, d), hour |-> h, tz |-> "Z"]),
     date |-> None,
     consumption |-> kwh]

\* a market price record in 1e-7 EUR/kWh
MarketPriceAt(y, m, d, h, price) ==
    [start_time |-> [day |-> DaysFromCivil(y, m, d), hour |-> h, tz |-> "Z"],
     price_per_kwh |-> price]

\* _fetch_and_calculate_prices: the coordinator keeps calculated prices
FetchAndCalculatePrices(c, raw, today) ==
    CalculatePricesOf(c, raw, Some(today), today).prices

\* a fixed time-of-use tariff with power rates, and a market tariff with a
\* discount of 45 % from 11:00 to 14:00
InvoiceFixedArgs ==
    [BaseArgs EXCEPT !.p1_rate = Some(200001),
                     !.p2_rate = Some(150000),
                     !.p3_rate = Some(80004),
                     !.power_p1_rate = SomePowerP1Rate,
                     !.power_p2_rate = SomePowerP2Rate]

InvoiceMarketArgs ==
    [BaseArgs EXCEPT !.pricing_model = PRICING_MODEL_MARKET,
                     !.time_structure = TIME_STRUCTURE_SINGLE_RATE,
                     !.discount_start_hour = Some(11),
                     !.discount_end_hour = Some(14),
                     !.discount_percentage = Some(45)]

\* the tax rates of the tariff configuration: none, or 10 % electricity tax
\* and 20 % VAT
NoTaxes ==
    [electricity_tax_rate |-> [num |-> 0, den |-> 1],
     vat_rate |-> [num |-> 0, den |-> 1]]

SomeTaxes ==
    [electricity_tax_rate |-> [num |-> 1, den |-> 10],
     vat_rate |-> [num |-> 1, den |-> 5]]

\* what the sensor reads of the config entry and of the tariff
\* configuration: nothing and no taxes; or 1 kW, a fee of 0.05 EUR, other
\* concepts of 0.0001 EUR a day, and taxes
EntryPlain ==
    [power_kw |-> None,
     management_fee_monthly |-> None,
     other_concepts_rate |-> None,
     electricity_tax_rate |-> NoTaxes.electricity_tax_rate,
     vat_rate |-> NoTaxes.vat_rate]

EntryFull ==
    [power_kw |-> Some(10),
     management_fee_monthly |-> Some(500000),
     other_concepts_rate |-> Some(1000),
     electricity_tax_rate |-> SomeTaxes.electricity_tax_rate,
     vat_rate |-> SomeTaxes.vat_rate]

\* the result of a coordinator update
Result(billing, consumption, prices, tomorrow) ==
    [EmptyData EXCEPT !.billing = billing,
                      !.consumption = consumption,
                      !.today_prices = prices,
                      !.tomorrow_prices = tomorrow]

Billing(last_invoice) == Some([last_invoice |-> last_invoice])

\* calculated prices of 27 February 2025 and of the day after, and two
\* consumption lists, for the fixed tariff
FixedPrices ==
    FetchAndCalculatePrices(InvoiceFixedArgs,
        <<MarketPriceAt(2025, 2, 27, 10, 900000),
          MarketPriceAt(2025, 2, 27, 15, 1100000)>>,
        DaysFromCivil(2025, 2, 27))

FixedTomorrowPrices ==
    FetchAndCalculatePrices(InvoiceFixedArgs,
        <<MarketPriceAt(2025, 2, 28, 3, 700000)>>,
        DaysFromCivil(2025, 2, 28))

ConsumedEarly ==
    <<Consumed(2025, 2, 18, 10, 2), Consumed(2025, 2, 27, 10, 1)>>

ConsumedLate ==
    <<Consumed(2025, 2, 27, 10, 3), Consumed(2025, 3, 2, 18, 1),
      Consumed(2025, 3, 4, 7, 2)>>

\* a family of scenarios: a tariff, a config entry, the days of the reads
\* and the coordinator results.  The periods of the fixed tariff:
PeriodFamily ==
    [c |-> InvoiceFixedArgs,
     e |-> EntryFull,
     nows |-> {DaysFromCivil(2025, 2, 26), DaysFromCivil(2025, 2, 27),
               DaysFromCivil(2025, 2, 28), DaysFromCivil(2025, 3, 1),
               DaysFromCivil(2025, 3, 3), DaysFromCivil(2025, 3, 6)},
     datas |->
        {Result(Billing(i), ConsumedLate, FixedPrices, FixedTomorrowPrices) :
            i \in {InvoiceLateFebruary, InvoiceMidFebruary,
                   InvoiceLateDecember, InvoiceOneDay}}
        \cup {Result(Billing(InvoiceLateFebruary), ConsumedEarly, FixedPrices, << >>)}]

\* results without an estimate, and one with
BrokenFamily ==
    [c |-> InvoiceFixedArgs,
     e |-> EntryPlain,
     nows |-> {DaysFromCivil(2025, 2, 27)},
     datas |->
        {Result(Billing(i), ConsumedEarly, FixedPrices, FixedTomorrowPrices) :
            i \in BrokenInvoices \cup {InvoiceLateFebruary}}
        \cup {EmptyData,
              Result(None, ConsumedEarly, FixedPrices, FixedTomorrowPrices),
              Result(Billing(InvoiceLateFebruary), << >>, FixedPrices, << >>),
              Result(Billing(InvoiceLateFebruary), ConsumedEarly, << >>,
                     FixedTomorrowPrices),
              Result(Billing(InvoiceLateFebruary), << >>, << >>, << >>)}]

\* market prices of the hours from 11:00, from 12:00 and from 16:00 of 27
\* February 2025 in Madrid, as the coordinator calculated them
MarketPrices ==
    FetchAndCalculatePrices(InvoiceMarketArgs,
        <<MarketPriceAt(2025, 2, 27, 10, 200000),
          MarketPriceAt(2025, 2, 27, 11, 300000),
          MarketPriceAt(2025, 2, 27, 15, 100001)>>,
        DaysFromCivil(2025, 2, 27))

MarketFamily ==
    [c |-> InvoiceMarketArgs,
     e |-> EntryPlain,
     nows |-> {DaysFromCivil(2025, 2, 27)},
     datas |->
        {Result(Billing(InvoiceLateFebruary), l, p, << >>) :
            l \in {<<Consumed(2025, 2, 27, 10, 2)>>,
                   <<Consumed(2025, 2, 27, 15, 3)>>,
                   <<Consumed(2025, 2, 27, 10, 1), Consumed(2025, 2, 27, 11, 2),
                     Consumed(2025, 2, 27, 15, 1)>>},
            p \in {MarketPrices, SubSeq(MarketPrices, 3, 3)}}]

\* the year 2024 was invoiced at once
YearFamily ==
    [c |-> InvoiceMarketArgs,
     e |-> EntryPlain,
     nows |-> {DaysFromCivil(2024, 12, 31)},
     datas |->
        {Result(Billing(i), <<Consumed(2024, 12, 31, 9, 1)>>, p, << >>) :
            i \in {InvoiceYear, InvoiceLateDecember},
            p \in {SubSeq(MarketPrices, 1, 1), SubSeq(MarketPrices, 1, 2)}}]

InvoiceFamilies == {PeriodFamily, BrokenFamily, MarketFamily, YearFamily}

\* the family of the current state
CurrentFamilies ==
    {f \in InvoiceFamilies :
        /\ config = Some(f.c)
        /\ entry = f.e
        /\ now \in f.nows
        /\ data \in f.datas}

InitInvoice ==
    /\ \E f \in InvoiceFamilies :
        /\ TariffReady(f.c)
        /\ entry = f.e
        /\ now \in f.nows
        /\ data \in f.datas
    /\ last_update_success = TRUE
    /\ grouped = None
    /\ daily_consumption = NewDailyConsumption
    /\ daily_cost = NewDailyCost
    /\ next_invoice = NewNextInvoice
    /\ recent_credits = None
    /\ historical_credits = << >>
    /\ merged_credits = None
    /\ OthersIdle

\* Home Assistant reads the state of the next invoice sensor
ReadNextInvoice ==
    /\ next_invoice' = NextInvoiceNativeValue(next_invoice, data,
                                              last_update_success, entry,
                                              Val(config), now)
    /\ UNCHANGED <<tariffVars, otherVars, now, data, last_update_success, entry, grouped,
                   daily_consumption, daily_cost,
                   recent_credits, historical_credits, merged_credits>>

\* _async_update_data returns d: the coordinator keeps the prices it has when
\* it fetched none
UpdateData(d) ==
    /\ data.today_prices # << >> => d.today_prices # << >>
    /\ data' = d
    /\ last_update_success' = TRUE
    /\ UNCHANGED <<tariffVars, otherVars, now, entry, grouped, daily_consumption,
                   daily_cost, next_invoice,
                   recent_credits, historical_credits, merged_credits>>

\* _async_update_data raises UpdateFailed: only without cached prices
UpdateFailed ==
    /\ data.today_prices = << >>
    /\ last_update_success' = FALSE
    /\ UNCHANGED <<tariffVars, otherVars, now, data, entry, grouped, daily_consumption,
                   daily_cost, next_invoice,
                   recent_credits, historical_credits, merged_credits>>

NextInvoice ==
    \/ ReadNextInvoice
    \/ \E f \in CurrentFamilies : \E d \in f.datas : UpdateData(d)
    \/ UpdateFailed

SpecInvoice == InitInvoice /\ [][NextInvoice]_vars

---------------------------------------------------------------------------
(* The credit merge over bounded inputs                                     *)

\* longest list of credit records on either side
MaxCredits == 2

CreatedInMarch == Some([day |-> 5, hour |-> 10, tz |-> "Z", half_seconds |-> 0])

CreatedInApril == Some([day |-> 8, hour |-> 9, tz |-> "Z", half_seconds |-> 0])

\* 2024-03-31T21:59:59.500Z, half a second before April begins in Madrid
CreatedEndOfMarch ==
    Some([day |-> 6, hour |-> 21, tz |-> "Z", half_seconds |-> 7199])

\* the credit records the lists are made of: the id "a" in two versions,
\* the id "b", a record without id and a record without id and createdAt;
\* and the id "c" created in the last second of March;
\* amounts 10.05, 20.00, 0.255, 3.00, 1.00 and 5.00 EUR
CreditItems ==
    {[id |-> Some("a"), createdAt |-> CreatedInMarch, amount |-> 10050,
      reasonCode |-> "SUN_CLUB"],
     [id |-> Some("a"), createdAt |-> CreatedInMarch, amount |-> 20000,
      reasonCode |-> "SUN_CLUB"],
     [id |-> Some("b"), createdAt |-> CreatedInApril, amount |-> 255,
      reasonCode |-> "SUN_CLUB_POWER_UP_EVENT"],
     [id |-> None, createdAt |-> CreatedInApril, amount |-> 3000,
      reasonCode |-> "UNKNOWN"],
     [id |-> None, createdAt |-> None, amount |-> 1000,
      reasonCode |-> "UNKNOWN"],
     [id |-> Some("c"), createdAt |-> CreatedEndOfMarch, amount |-> 5000,
      reasonCode |-> "SUN_CLUB"]}

InitCredits ==
    /\ TariffReady(BaseArgs)
    /\ now \in {6, 8}
    /\ data = EmptyData
    /\ last_update_success = TRUE
    /\ entry = None
    /\ grouped = None
    /\ daily_consumption = NewDailyConsumption
    /\ daily_cost = NewDailyCost
    /\ next_invoice = NewNextInvoice
    /\ recent_credits \in
           {None} \cup {Some([credits |-> c]) : c \in SeqsUpTo(CreditItems, MaxCredits)}
    /\ historical_credits \in SeqsUpTo(CreditItems, MaxCredits)
    /\ merged_credits = None
    /\ OthersIdle

\* the update cycle merges the recent credits with the stored history
MergeCredits ==
    /\ merged_credits = None
    /\ merged_credits' =
           Some(MergeCreditsData(recent_credits, historical_credits, now))
    /\ UNCHANGED <<tariffVars, otherVars, now, data, last_update_success, entry, grouped,
                   daily_consumption, daily_cost, next_invoice,
                   recent_credits, historical_credits>>

NextCredits == MergeCredits

SpecCredits == InitCredits /\ [][NextCredits]_vars

---------------------------------------------------------------------------
(* The monthly and weekly consumption sensors over changing data            *)

\* last day the wall clock of the rollup sensors reaches: Thursday 2 May 2024
MaxRollupNow == 38

\* the clock starts on Sunday 28 April 2024
FirstRollupNow == DaysFromCivil(2024, 4, 28)

\* a consumption record of the hour 10:00Z of a day, kwh in 1e-4 kWh
ConsumedOn(day, kwh) ==
    [start_time |-> Some([day |-> day, hour |-> 10, tz |-> "Z"]),
     date |-> None,
     consumption |-> kwh]

\* the consumption lists the coordinator delivers: nothing; March only;
\* April; the end of April and the first of May; a first of May without
\* consumption; the first two days of May
ConsumptionSnapshots ==
    {<< >>,
     <<ConsumedOn(DaysFromCivil(2024, 3, 15), 30000)>>,
     <<ConsumedOn(DaysFromCivil(2024, 4, 20), 20000),
       ConsumedOn(DaysFromCivil(2024, 4, 28), 15000)>>,
     <<ConsumedOn(DaysFromCivil(2024, 4, 30), 15000),
       ConsumedOn(DaysFromCivil(2024, 5, 1), 12345)>>,
     <<ConsumedOn(DaysFromCivil(2024, 4, 20), 20000),
       ConsumedOn(DaysFromCivil(2024, 5, 1), 0)>>,
     <<ConsumedOn(DaysFromCivil(2024, 5, 1), 12345),
       ConsumedOn(DaysFromCivil(2024, 5, 2), 5000)>>}

\* no record is dated after the day it is delivered
Delivered(c, today) ==
    \A i \in DOMAIN c : Val(c[i].start_time).day <= today

InitRollups ==
    /\ TariffReady(BaseArgs)
    /\ now = FirstRollupNow
    /\ \E c \in ConsumptionSnapshots :
        /\ Delivered(c, now)
        /\ data = [EmptyData EXCEPT !.consumption = c]
    /\ last_update_success = TRUE
    /\ entry = None
    /\ grouped = None
    /\ daily_consumption = NewDailyConsumption
    /\ daily_cost = NewDailyCost
    /\ next_invoice = NewNextInvoice
    /\ recent_credits = None
    /\ historical_credits = << >>
    /\ merged_credits = None
    /\ OthersIdle

\* Home Assistant reads the state of the monthly consumption sensor
ReadMonthlyConsumption ==
    /\ monthly_consumption' =
           [MonthlyConsumptionNativeValue(monthly_consumption, data,
                                          last_update_success, now)
               EXCEPT !.seen = Some([consumption |-> data.consumption,
                                     today |-> now])]
    /\ UNCHANGED <<tariffVars, now, resultVars, weekly_consumption,
                   coordinatorVars, mergeVars>>

\* Home Assistant reads the state of the weekly consumption sensor
ReadWeeklyConsumption ==
    /\ weekly_consumption' =
           Only({[after EXCEPT
                     !.seen =
                         Some([consumption |-> data.consumption,
                               today |-> now,
                               should_update |->
                                   WeeklyShouldUpdate(weekly_consumption, now),
                               recomputed |->
                                   IF after.last_weekly_update
                                          # weekly_consumption.last_weekly_update
                                   THEN after.returned
                                   ELSE IF /\ weekly_consumption.seen # None
                                           /\ Val(weekly_consumption.seen).today = now
                                   THEN Val(weekly_consumption.seen).recomputed
                                   ELSE None])] :
                 after \in {WeeklyConsumptionNativeValue(weekly_consumption, data,
                                                        last_update_success, now)}})
    /\ UNCHANGED <<tariffVars, now, resultVars, monthly_consumption,
                   coordinatorVars, mergeVars>>

\* an update cycle delivers another consumption list
UpdateConsumption(c) ==
    /\ Delivered(c, now)
    /\ data' = [data EXCEPT !.consumption = c]
    /\ UNCHANGED <<tariffVars, now, last_update_success, entry, grouped,
                   daily_consumption, daily_cost, next_invoice, recent_credits,
                   historical_credits, merged_credits, otherVars>>

\* midnight passes
NextDay ==
    /\ now < MaxRollupNow
    /\ now' = now + 1
    /\ UNCHANGED <<tariffVars, sensorVars>>

NextRollups ==
    \/ ReadMonthlyConsumption
    \/ ReadWeeklyConsumption
    \/ \E c \in ConsumptionSnapshots : UpdateConsumption(c)
    \/ NextDay

SpecRollups == InitRollups /\ [][NextRollups]_vars
---------------------------------------------------------------------------
(* The update cycles of the coordinator over two days                       *)

\* last day the wall clock of the coordinator reaches
MaxCycleDay == 39

\* the cycles start on Thursday 2 May 2024
FirstCycleDay == DaysFromCivil(2024, 5, 2)

\* the hours of the day at which the clock is looked at
CycleHours == {0, 13, 14, 18}

\* what the price sources do when asked
Answers == {"prices", "empty", "fail", "error"}

InitCoordinator ==
    /\ TariffReady(BaseArgs)
    /\ now = FirstCycleDay
    /\ data = EmptyData
    /\ last_update_success = TRUE
    /\ entry = None
    /\ grouped = None
    /\ daily_consumption = NewDailyConsumption
    /\ daily_cost = NewDailyCost
    /\ next_invoice = NewNextInvoice
    /\ recent_credits = None
    /\ historical_credits = << >>
    /\ merged_credits = None
    /\ monthly_consumption = NewMonthlyConsumption
    /\ weekly_consumption = NewWeeklyConsumption
    /\ coordinator = NewCoordinator
    /\ clock_hour = 0
    /\ cycle = None
    /\ source = IdleSource
    /\ consumption_data = << >>
    /\ historical_data = << >>
    /\ merged_consumption = None

\* the answer of the sources for tomorrow: nothing before publication
TomorrowAnswers ==
    IF source.published THEN {"prices", "fail", "error"} ELSE {"empty", "fail", "error"}

\* the two price blocks of _async_update_data from the coordinator self at
\* the hour current_hour of the day today, after the cycle previous:
\* the coordinator after the cycle and the record of what the cycle did:
\* whether the fetch for today raised, whether a fetch for tomorrow was
\* made and how it ended, how many fetches for tomorrow completed on this
\* date before and with this cycle (counted up to two), and the
\* coordinator the cycle started from
TomorrowBlock(self, after_today, fetched, c, today, current_hour, previous, today_answer, tomorrow_answer) ==
    LET should_update_tomorrow ==
            ShouldUpdateTomorrow(after_today.self, today, current_hour)
        completed_before ==
            IF previous # None /\ Val(previous).day = today
            THEN Val(previous).completed_today
            ELSE 0
    IN  IF after_today.update_failed
        THEN [self |-> after_today.self,
              record |-> [day |-> today, hour |-> current_hour,
                          update_failed |-> TRUE,
                          today_answer |-> today_answer,
                          today_raised |-> fetched.raised,
                          tomorrow_fetch |-> "none",
                          completed_before |-> completed_before,
                          completed_today |-> completed_before,
                          before |-> self]]
        ELSE IF ~should_update_tomorrow
        THEN [self |-> after_today.self,
              record |-> [day |-> today, hour |-> current_hour,
                          update_failed |-> FALSE,
                          today_answer |-> today_answer,
                          today_raised |-> fetched.raised,
                          tomorrow_fetch |-> "none",
                          completed_before |-> completed_before,
                          completed_today |-> completed_before,
                          before |-> self]]
        ELSE Only({[self |-> UpdateTomorrowPrices(after_today.self,
                                                  fetched_tomorrow, today),
                    record |-> [day |-> today, hour |-> current_hour,
                                update_failed |-> FALSE,
                                today_answer |-> today_answer,
                                today_raised |-> fetched.raised,
                                tomorrow_fetch |->
                                    IF fetched_tomorrow.raised THEN "raised"
                                    ELSE "completed",
                                completed_before |-> completed_before,
                                completed_today |->
                                    IF fetched_tomorrow.raised
                                    THEN completed_before
                                    ELSE IF completed_before = 0 THEN 1
                                    ELSE 2,
                                before |-> self]] :
                   fetched_tomorrow \in
                       {FetchAndCalculate(after_today.self, c, Some(today + 1),
                                          today, tomorrow_answer)}})

TodayBlock(self, fetched, c, today, current_hour, previous, today_answer, tomorrow_answer) ==
    Only({TomorrowBlock(self, after_today, fetched, c, today, current_hour,
                        previous, today_answer, tomorrow_answer) :
          after_today \in {UpdateTodayPrices(self, fetched)}})

CycleOutcome(self, c, today, current_hour, previous, today_answer, tomorrow_answer) ==
    Only({TodayBlock(self, fetched, c, today, current_hour, previous,
                     today_answer, tomorrow_answer) :
          fetched \in {FetchAndCalculate(self, c, None, today, today_answer)}})

\* one update cycle: _async_update_data and what the base class does with
\* its outcome; today_answer and tomorrow_answer are the sources' answers
AsyncUpdateData(today_answer, tomorrow_answer) ==
    \E r \in {CycleOutcome(coordinator, Val(config), now, clock_hour, cycle,
                            today_answer, tomorrow_answer)} :
        /\ coordinator' = r.self
        /\ last_update_success' = ~r.record.update_failed
        /\ data' = IF r.record.update_failed THEN data ELSE CycleResult(r.self)
        /\ cycle' = Some(r.record)

UpdateCycle ==
    /\ \E today_answer \in Answers, tomorrow_answer \in TomorrowAnswers :
           AsyncUpdateData(today_answer, tomorrow_answer)
    /\ UNCHANGED <<tariffVars, now, clock_hour, source, entry, grouped,
                   daily_consumption, daily_cost, next_invoice, recent_credits,
                   historical_credits, merged_credits, rollupVars, mergeVars>>

\* a cycle ran at the present hour
CycleRan ==
    /\ cycle # None
    /\ Val(cycle).day = now
    /\ Val(cycle).hour = clock_hour

\* the clock moves to the next hour it is looked at; cycles run every hour,
\* so one ran before the clock moves on
HourPasses ==
    /\ CycleRan
    /\ \E h \in CycleHours : h > clock_hour
    /\ clock_hour' = CHOOSE h \in CycleHours :
                         /\ h > clock_hour
                         /\ \A g \in CycleHours : g > clock_hour => h <= g
    /\ UNCHANGED <<tariffVars, now, resultVars, rollupVars, coordinator, cycle,
                   source, mergeVars>>

\* midnight passes: what was tomorrow is today, the day after is unpublished
MidnightPasses ==
    /\ CycleRan
    /\ \A h \in CycleHours : h <= clock_hour
    /\ now < MaxCycleDay
    /\ now' = now + 1
    /\ clock_hour' = 0
    /\ source' = [source EXCEPT !.published = FALSE]
    /\ UNCHANGED <<tariffVars, resultVars, rollupVars, coordinator, cycle,
                   mergeVars>>

\* the sources publish the prices of tomorrow
Publish ==
    /\ ~source.published
    /\ clock_hour >= 13
    /\ source' = [source EXCEPT !.published = TRUE]
    /\ UNCHANGED <<tariffVars, now, clock_hour, resultVars, rollupVars, coordinator,
                   cycle, mergeVars>>

NextCoordinator ==
    \/ UpdateCycle
    \/ HourPasses
    \/ MidnightPasses
    \/ Publish

SpecCoordinator == InitCoordinator /\ [][NextCoordinator]_vars

\* cycles keep running and the clock keeps moving
SpecCoordinatorLive ==
    /\ InitCoordinator
    /\ [][NextCoordinator]_vars
    /\ WF_vars(UpdateCycle)
    /\ WF_vars(HourPasses)
    /\ WF_vars(MidnightPasses)
---------------------------------------------------------------------------
(* The consumption merge over bounded inputs                                *)

\* longest list of consumption records on either side
MaxMerge == 2

\* the records the lists are made of: the hour 10:00 of a Saturday in two
\* versions, the hour before, the same instant written with an offset, and
\* records keyed by their date or without any key
MergeItems ==
    {[start_time |-> Some([day |-> 5, hour |-> 10, tz |-> "Z"]), date |-> None,
      consumption |-> 12345],
     [start_time |-> Some([day |-> 5, hour |-> 10, tz |-> "Z"]), date |-> None,
      consumption |-> 20000],
     [start_time |-> Some([day |-> 5, hour |-> 9, tz |-> "Z"]), date |-> None,
      consumption |-> 5],
     [start_time |-> Some([day |-> 5, hour |-> 11, tz |-> "+02:00"]), date |-> None,
      consumption |-> 2500],
     [start_time |-> None, date |-> DateSaturday, consumption |-> 10006],
     [start_time |-> None, date |-> None, consumption |-> 20000]}

InitMerge ==
    /\ TariffReady(BaseArgs)
    /\ now = 6
    /\ data = EmptyData
    /\ last_update_success = TRUE
    /\ entry = None
    /\ grouped = None
    /\ daily_consumption = NewDailyConsumption
    /\ daily_cost = NewDailyCost
    /\ next_invoice = NewNextInvoice
    /\ recent_credits = None
    /\ historical_credits = << >>
    /\ merged_credits = None
    /\ monthly_consumption = NewMonthlyConsumption
    /\ weekly_consumption = NewWeeklyConsumption
    /\ coordinator = NewCoordinator
    /\ clock_hour = 0
    /\ cycle = None
    /\ source = IdleSource
    /\ consumption_data \in SeqsUpTo(MergeItems, MaxMerge)
    /\ historical_data \in SeqsUpTo(MergeItems, MaxMerge)
    /\ merged_consumption = None

\* the update cycle merges the recent consumption with the stored history
MergeConsumption ==
    /\ merged_consumption = None
    /\ merged_consumption' =
           Some(MergeConsumptionData(consumption_data, historical_data))
    /\ UNCHANGED <<tariffVars, now, resultVars, rollupVars, coordinatorVars,
                   consumption_data, historical_data>>

NextMerge == MergeConsumption

SpecMerge == InitMerge /\ [][NextMerge]_vars
---------------------------------------------------------------------------
(* Properties of TariffConfig construction *)

\* the constructor has run and raised: no config object exists
Raised == ctor \notin {"pending", "ok"} /\ config = None

\* the constructor has run and returned a config object
Constructed == ctor = "ok" /\ config = Some(args)

\* the union of the three period-hour collections
HourUnion(a) ==
    ToSet(a.p1_hours_weekdays) \cup ToSet(a.p2_hours_weekdays)
        \cup ToSet(a.p3_hours_weekdays)

\* C1: constructing a TariffConfig raises ValueError and produces no config
\* whenever the union of the three weekday period-hour collections is not
\* exactly {0..23} (an hour is missing or a value lies outside 0..23).
C1_UnionMustCoverDay ==
    /\ ctor # "pending" => Raised \/ Constructed
    /\ (ctor # "pending" /\ HourUnion(args) # 0 .. 23) => Raised

\* C1 witness: a construction with every hour present and the value 24
\* listed as well has raised.
C1_Witness ==
    /\ Raised
    /\ (0 .. 23) \subseteq HourUnion(args)
    /\ 24 \in HourUnion(args)
    /\ args.pricing_model = PRICING_MODEL_FIXED
    /\ args.time_structure = TIME_STRUCTURE_TIME_OF_USE

\* two of the three period-hour collections share an hour
Overlapping(a) ==
    \/ ToSet(a.p1_hours_weekdays) \cap ToSet(a.p2_hours_weekdays) # {}
    \/ ToSet(a.p1_hours_weekdays) \cap ToSet(a.p3_hours_weekdays) # {}
    \/ ToSet(a.p2_hours_weekdays) \cap ToSet(a.p3_hours_weekdays) # {}

\* C2: constructing a TariffConfig fails whenever two of the period-hour
\* collections share an hour, so every constructed config has pairwise
\* disjoint P1, P2 and P3 hour sets.
C2_NoOverlap ==
    /\ (ctor # "pending" /\ Overlapping(args)) => Raised
    /\ config # None => ~ Overlapping(Val(config))

\* the discount window of a is fully specified and in range
DiscountWellFormed(a) ==
    /\ a.discount_start_hour # None
    /\ a.discount_end_hour # None
    /\ Val(a.discount_start_hour) \in 0 .. 23
    /\ Val(a.discount_end_hour) \in 0 .. 23
    /\ Val(a.discount_percentage) >= 0
    /\ Val(a.discount_percentage) <= 100

\* C3: constructing a TariffConfig with discount_percentage set raises unless
\* both discount hours are set and in 0..23 and the percentage is in [0,1];
\* every constructed config with a percentage has a well-formed window.
C3_DiscountValidated ==
    /\ (/\ ctor # "pending"
        /\ args.discount_percentage # None
        /\ ~ DiscountWellFormed(args)) => Raised
    /\ (config # None /\ Val(config).discount_percentage # None)
           => DiscountWellFormed(Val(config))

\* C3 witness: a construction with a valid percentage, a start hour in range
\* and an end hour out of range has raised.
C3_Witness ==
    /\ Raised
    /\ HourUnion(args) = 0 .. 23
    /\ args.discount_percentage = Some(45)
    /\ args.discount_start_hour = Some(12)
    /\ args.discount_end_hour = Some(-1)

---------------------------------------------------------------------------
(* Properties of calculate_prices *)

\* calculate_prices has returned for the constructed config
Priced == config # None /\ calculated # None

\* the Madrid wall time of the i-th input record
LocalTime(i) == Localize(market_prices[i].start_time)

\* Saturday or Sunday in Madrid
OnWeekend(i) == Weekday(LocalTime(i).day) \in {5, 6}

\* the i-th calculated price, in 1e-6 EUR/kWh
PriceAt(i) == Val(calculated)[i].price_per_kwh

\* C4: with pricing_model=fixed, time_structure=single_rate and fixed_rate
\* configured, every returned price equals fixed_rate rounded to 6 decimals,
\* whatever the input prices, hours and days of week.
C4_FixedSingleRate ==
    (/\ Priced
     /\ Val(config).pricing_model = PRICING_MODEL_FIXED
     /\ Val(config).time_structure = TIME_STRUCTURE_SINGLE_RATE
     /\ Val(config).fixed_rate # None)
    => \A i \in 1 .. Len(Val(calculated)) :
           PriceAt(i) = RoundHalfEven(Val(Val(config).fixed_rate), 10)

\* C4 witness: a single-rate calculation over two records with different
\* market prices, the first on Friday 23:00 and the second on Saturday 00:00.
C4_Witness ==
    /\ Priced
    /\ Val(config).pricing_model = PRICING_MODEL_FIXED
    /\ Val(config).time_structure = TIME_STRUCTURE_SINGLE_RATE
    /\ Val(config).fixed_rate = Some(1500005)
    /\ Len(market_prices) = 2
    /\ market_prices[1].price_per_kwh # market_prices[2].price_per_kwh
    /\ LocalTime(1) = [day |-> 4, hour |-> 23]
    /\ LocalTime(2) = [day |-> 5, hour |-> 0]
    /\ PriceAt(1) = 150000
    /\ PriceAt(2) = 150000

\* C5: with pricing_model=fixed and time_structure=time_of_use (p3_rate
\* configured), every record whose Madrid-localized start_time is on a
\* Saturday or Sunday is priced at p3_rate (rounded to 6 decimals), for every
\* hour and whichever weekday period lists contain that hour.
C5_WeekendIsP3 ==
    (/\ Priced
     /\ Val(config).pricing_model = PRICING_MODEL_FIXED
     /\ Val(config).time_structure = TIME_STRUCTURE_TIME_OF_USE
     /\ Val(config).p3_rate # None)
    => \A i \in 1 .. Len(market_prices) :
           OnWeekend(i) => PriceAt(i) = RoundHalfEven(Val(Val(config).p3_rate), 10)

\* C5 witness: under the default period lists, records given as Sunday 21:00
\* and 20:00 UTC (Sunday 23:00 and 22:00 in Madrid, P2 hours on a weekday) are
\* priced at p3_rate.
C5_Witness ==
    /\ Priced
    /\ Val(config).pricing_model = PRICING_MODEL_FIXED
    /\ Val(config).time_structure = TIME_STRUCTURE_TIME_OF_USE
    /\ Val(config).p3_rate = Some(800004)
    /\ Val(config).p2_rate = Some(1500000)
    /\ Val(config).p1_hours_weekdays = DEFAULT_P1_HOURS
    /\ Val(config).p2_hours_weekdays = DEFAULT_P2_HOURS
    /\ Val(config).p3_hours_weekdays = DEFAULT_P3_HOURS
    /\ Len(market_prices) = 2
    /\ market_prices[1].start_time = [day |-> 6, hour |-> 21, tz |-> "Z"]
    /\ LocalTime(1) = [day |-> 6, hour |-> 23]
    /\ LocalTime(2) = [day |-> 6, hour |-> 22]
    /\ PriceAt(1) = 80000
    /\ PriceAt(2) = 80000

\* the weekday periods of c whose hour list contains h, with their rates
PeriodRatesFor(c, h) ==
    (IF h \in ToSet(c.p1_hours_weekdays) THEN {c.p1_rate} ELSE {})
    \cup (IF h \in ToSet(c.p2_hours_weekdays) THEN {c.p2_rate} ELSE {})
    \cup (IF h \in ToSet(c.p3_hours_weekdays) THEN {c.p3_rate} ELSE {})

InDiscountWindow(c, h) ==
    /\ c.discount_percentage # None
    /\ Val(c.discount_start_hour) <= h
    /\ h < Val(c.discount_end_hour)

\* C7: with pricing_model=market, each output price is the input price times
\* (1 - discount_percentage) exactly when a discount is configured and
\* discount_start_hour <= Madrid hour < discount_end_hour, and the input
\* price otherwise; the result is rounded to 6 decimals.
C7_MarketDiscountWindow ==
    (Priced /\ Val(config).pricing_model = PRICING_MODEL_MARKET)
    => \A i \in 1 .. Len(market_prices) :
           PriceAt(i) =
               IF InDiscountWindow(Val(config), LocalTime(i).hour)
               THEN RoundHalfEven(market_prices[i].price_per_kwh
                                    * (100 - Val(Val(config).discount_percentage)), 1000)
               ELSE RoundHalfEven(market_prices[i].price_per_kwh, 10)

\* C7 witness: window [12,18) at 45%: 0.20 at Friday 17:00 becomes 0.11, and
\* the next record, at 18:00, keeps its price of -0.0500015, rounded to
\* -0.050002.
C7_Witness ==
    /\ Priced
    /\ Val(config).pricing_model = PRICING_MODEL_MARKET
    /\ Val(config).discount_percentage = Some(45)
    /\ Val(config).discount_start_hour = Some(12)
    /\ Val(config).discount_end_hour = Some(18)
    /\ Len(market_prices) = 2
    /\ market_prices[1] =
           [start_time |-> [day |-> 4, hour |-> 17, tz |-> "naive"],
            price_per_kwh |-> 2000000]
    /\ LocalTime(2).hour = 18
    /\ market_prices[2].price_per_kwh = -500015
    /\ PriceAt(1) = 110000
    /\ PriceAt(2) = -50002

\* C8: for both pricing models calculate_prices returns a list as long as
\* market_prices whose i-th record carries the i-th input start_time; an
\* empty input gives an empty output.
C8_OrderAndLengthPreserved ==
    Priced
    => /\ Len(Val(calculated)) = Len(market_prices)
       /\ \A i \in 1 .. Len(market_prices) :
              Val(calculated)[i].start_time = market_prices[i].start_time
       /\ (market_prices = <<>> => Val(calculated) = <<>>)

\* C8 witness: a market calculation over two records given latest first.
C8_Witness ==
    /\ Priced
    /\ Val(config).pricing_model = PRICING_MODEL_MARKET
    /\ Len(market_prices) = 2
    /\ market_prices[1].start_time = [day |-> 5, hour |-> 0, tz |-> "naive"]
    /\ market_prices[2].start_time = [day |-> 4, hour |-> 23, tz |-> "naive"]
    /\ Val(calculated)[1].start_time = market_prices[1].start_time
    /\ Val(calculated)[2].start_time = market_prices[2].start_time

---------------------------------------------------------------------------
(* Properties of calculate_power_cost *)

\* calculate_power_cost has returned, with both power rates configured
PowerPriced ==
    /\ config # None
    /\ power_cost # None
    /\ Val(config).power_p1_rate # None
    /\ Val(config).power_p2_rate # None

\* hours of the date billed as power P1: none on Saturday and Sunday, the
\* hours 0..23 listed in p1_hours_weekdays on Monday-Friday
ExpectedP1Hours ==
    IF Weekday(Val(power_cost).target_date) \in {5, 6}
    THEN 0
    ELSE Cardinality(ToSet(Val(config).p1_hours_weekdays) \cap (0 .. 23))

ExpectedP2Hours == 24 - ExpectedP1Hours

\* power_kw * rate * hours, in units of 1/240 of 1e-6 EUR
P1Numerator == power_kw * Val(Val(config).power_p1_rate) * ExpectedP1Hours

P2Numerator == power_kw * Val(Val(config).power_p2_rate) * ExpectedP2Hours

\* C10 as stated: the returned costs are exactly power_kw*rate*hours/24 and
\* total_cost is the sum of the returned p1_cost and p2_cost.
C10_ExactCosts ==
    PowerPriced
    => /\ Val(power_cost).p1_cost * 240 = P1Numerator
       /\ Val(power_cost).p2_cost * 240 = P2Numerator
       /\ Val(power_cost).total_cost = Val(power_cost).p1_cost + Val(power_cost).p2_cost

\* C10 (amended): with both power rates configured the 24 hours of the date
\* split into p1_hours + p2_hours = 24, p1_hours being 0 on Saturday/Sunday
\* and the number of hours 0..23 in p1_hours_weekdays on Monday-Friday; the
\* returned p1_cost and p2_cost are power_kw*rate*hours/24 rounded to 6
\* decimals and total_cost is the unrounded sum of the two, rounded to 6
\* decimals.
C10_RoundedCosts ==
    PowerPriced
    => /\ IF target_date = None
          THEN Val(power_cost).target_date \in FirstNow .. now
          ELSE Val(power_cost).target_date = Val(target_date)
       /\ ExpectedP1Hours + ExpectedP2Hours = 24
       /\ ExpectedP1Hours >= 0
       /\ ExpectedP2Hours >= 0
       /\ Val(power_cost).p1_cost = RoundHalfEven(P1Numerator, 240)
       /\ Val(power_cost).p2_cost = RoundHalfEven(P2Numerator, 240)
       /\ Val(power_cost).total_cost = RoundHalfEven(P1Numerator + P2Numerator, 240)

\* C10 witness: 1.0 kW on a Wednesday with the default period lists: 8 P1
\* hours and 16 P2 hours, p1_cost 0.033334, p2_cost 0.016669, total 0.050002.
C10_Witness ==
    /\ PowerPriced
    /\ power_kw = 10
    /\ target_date = Some(2)
    /\ Val(config).p1_hours_weekdays = DEFAULT_P1_HOURS
    /\ Val(config).power_p1_rate = Some(100001)
    /\ Val(config).power_p2_rate = Some(25003)
    /\ ExpectedP1Hours = 8
    /\ Val(power_cost).p1_cost = 33334
    /\ Val(power_cost).p2_cost = 16669
    /\ Val(power_cost).total_cost = 50002

---------------------------------------------------------------------------
(* calculate_prices as a pure function *)

\* the last call ran on the input of the first call and returned what the
\* first call returned
ProbeAgrees ==
    (/\ probe # None
     /\ calculated # None
     /\ market_prices = Val(probe).input)
    => Val(calculated) = Val(probe).output

\* a step in which calculate_prices returned leaves its inputs as they were
CallLeavesInputs ==
    (calculated' # None /\ (calculated' # calculated \/ probe' # probe))
    => (config' = config /\ market_prices' = market_prices)

\* C9: calculate_prices is a pure function of (config, market_prices): two
\* calls with identical inputs, on any two dates and with any calls in
\* between, return identical lists, and a call leaves the input records and
\* the tariff configuration unchanged.
C9_PureFunction == [] ProbeAgrees /\ [][CallLeavesInputs]_vars

\* C9 witness: under the fixed time-of-use tariff, a two-record list was
\* calculated, then another list, then on a later date the first list again,
\* with the first result.
C9_Witness ==
    /\ probe # None
    /\ Val(probe).again
    /\ Val(probe).between
    /\ Val(probe).at < now
    /\ Len(market_prices) = 2
    /\ market_prices = Val(probe).input
    /\ calculated = Some(Val(probe).output)
    /\ Val(config).pricing_model = PRICING_MODEL_FIXED
    /\ Val(config).time_structure = TIME_STRUCTURE_TIME_OF_USE

---------------------------------------------------------------------------
(* Properties of the consumption grouping and of the daily sensor           *)

\* the records of the coordinator's list that carry a timestamp that parses
WellTimestamped ==
    {i \in DOMAIN data.consumption :
        /\ ItemTimeStr(data.consumption[i]) # None
        /\ Val(ItemTimeStr(data.consumption[i])).tz # "invalid"}

\* the Madrid-local date of record i: the instant of its timestamp (a string
\* without offset is UTC), moved to Madrid time
MadridDateOf(i) ==
    LET st == Val(ItemTimeStr(data.consumption[i]))
        utc == st.day * 24 + st.hour
                   - (IF st.tz = "+02:00" THEN 2 ELSE 0)
    IN  (utc + MadridUtcOffset(utc)) \div 24

RECURSIVE SumKwh(_)
SumKwh(I) ==
    IF I = {}
    THEN 0
    ELSE LET i == CHOOSE x \in I : TRUE
         IN  data.consumption[i].consumption + SumKwh(I \ {i})

RECURSIVE SumBuckets(_, _)
SumBuckets(totals, D) ==
    IF D = {}
    THEN 0
    ELSE LET d == CHOOSE x \in D : TRUE
         IN  totals[d] + SumBuckets(totals, D \ {d})

DaysWithData == {MadridDateOf(i) : i \in WellTimestamped}

DayTotal(d) == SumKwh({i \in WellTimestamped : MadridDateOf(i) = d})

\* C12: grouping by day over a list in which records have a missing or
\* unparseable timestamp returns (it does not abort) and returns exactly
\* this: the buckets are the Madrid-local dates of the well-timestamped
\* records, each bucket holds the sum of the kWh of the records of its
\* date, and the buckets add up to the kWh of all well-timestamped records
C12_GroupingSkipsBadRecords ==
    grouped # None =>
        LET g == Val(grouped)
        IN  /\ DOMAIN g.daily_totals = DaysWithData
            /\ \A d \in DaysWithData : g.daily_totals[d] = DayTotal(d)
            /\ SumBuckets(g.daily_totals, DOMAIN g.daily_totals)
                   = SumKwh(WellTimestamped)
            /\ ToSet(g.all_dates) = DaysWithData

\* a list that starts with a record without timestamp and a record whose
\* timestamp does not parse, followed by a good record, has been grouped
\* into one bucket
C12_Witness ==
    /\ grouped # None
    /\ Len(data.consumption) = 3
    /\ ItemTimeStr(data.consumption[1]) = None
    /\ data.consumption[2].start_time = StampInvalid
    /\ WellTimestamped = {3}
    /\ DOMAIN Val(grouped).daily_totals = {MadridDateOf(3)}

\* the most recent day that has a record
MostRecentDay == CHOOSE d \in DaysWithData : \A e \in DaysWithData : e <= d

\* C11: once the daily sensor has been read: if today (Madrid date of now)
\* has a record it returned today's total (to three decimals) with is_today
\* true; otherwise, if some day has data, the total of the most recent such
\* day with is_today false and consumption_date that day; with no usable
\* record it returned None
C11_DailySelection ==
    daily_consumption.returned # None =>
        IF now \in DaysWithData
        THEN /\ daily_consumption.returned = Some(Some(Round3(DayTotal(now))))
             /\ daily_consumption.is_today
             /\ daily_consumption.consumption_date = Some(now)
        ELSE IF DaysWithData # {}
        THEN /\ daily_consumption.returned
                    = Some(Some(Round3(DayTotal(MostRecentDay))))
             /\ ~daily_consumption.is_today
             /\ daily_consumption.consumption_date = Some(MostRecentDay)
        ELSE daily_consumption.returned = Some(None)

\* the sensor fell back: today has no record, an earlier day and an even
\* earlier one have, and the later of the two is reported
C11_Witness ==
    /\ daily_consumption.returned # None
    /\ now \notin DaysWithData
    /\ Cardinality(DaysWithData) >= 2
    /\ daily_consumption.consumption_date = Some(MostRecentDay)
    /\ ~daily_consumption.is_today

---------------------------------------------------------------------------
(* Properties of the daily cost sensor                                      *)

\* the day the cost sensor selects: today if it has a record, else the most
\* recent day that has one
SelectedDay == IF now \in DaysWithData THEN now ELSE MostRecentDay

\* the Madrid hour of a well-timestamped consumption record
MadridHourOf(i) ==
    LET st == Val(ItemTimeStr(data.consumption[i]))
        utc == st.day * 24 + st.hour
                   - (IF st.tz = "+02:00" THEN 2 ELSE 0)
    IN  (utc + MadridUtcOffset(utc)) % 24

\* the consumption records of the selected day in the hour h
RecordsInHour(h) ==
    {i \in WellTimestamped : MadridDateOf(i) = SelectedDay /\ MadridHourOf(i) = h}

\* the Madrid [day, hour] of price record k of today_prices
PriceMadrid(k) ==
    LET st == data.today_prices[k].start_time
        utc == st.day * 24 + st.hour - (IF st.tz = "+02:00" THEN 2 ELSE 0)
        loc == utc + MadridUtcOffset(utc)
    IN  [day |-> loc \div 24, hour |-> loc % 24]

\* the price records with the Madrid date of the selected day and the hour h
PriceRecordsFor(h) ==
    {k \in DOMAIN data.today_prices :
        PriceMadrid(k) = [day |-> SelectedDay, hour |-> h]}

\* the hours of the selected day that have consumption and a price record
ConsumedHours ==
    {MadridHourOf(i) : i \in {j \in WellTimestamped : MadridDateOf(j) = SelectedDay}}

PricedHours == {h \in ConsumedHours : PriceRecordsFor(h) # {}}

RECURSIVE SumHours(_)
SumHours(H) ==
    IF H = {}
    THEN 0
    ELSE LET h == CHOOSE x \in H : TRUE
             k == CHOOSE x \in PriceRecordsFor(h) : \A y \in PriceRecordsFor(h) : x <= y
         IN  SumKwh(RecordsInHour(h)) * data.today_prices[k].price_per_kwh
                 + SumHours(H \ {h})

RECURSIVE SumTodayPrices(_)
SumTodayPrices(K) ==
    IF K = {}
    THEN 0
    ELSE LET k == CHOOSE x \in K : TRUE
         IN  data.today_prices[k].price_per_kwh + SumTodayPrices(K \ {k})

PricesOfSelectedDay ==
    {k \in DOMAIN data.today_prices : PriceMadrid(k).day = SelectedDay}

\* C18: once the daily cost sensor has been read over prices and consumption
\* with a dated record: the energy cost of the selected day is the sum,
\* over its hours that have consumption and a price record of the same
\* Madrid date and hour, of consumption times that price (the first such
\* record); only when no hour has such a record it is the day's
\* consumption times the average of the day's prices, or of all prices when
\* the day has none; and with no price at all the sensor returns None
C18_DailyEnergyCost ==
    (daily_cost.returned # None /\ HasData(data, last_update_success)) =>
        IF data.today_prices = << >> \/ DaysWithData = {}
        THEN daily_cost.returned = Some(None)
        ELSE /\ daily_cost.returned # Some(None)
             /\ LET energy_cost == Val(Val(daily_cost.returned)).energy_cost
                IN  IF PricedHours # {}
                    THEN energy_cost.num = SumHours(PricedHours) * energy_cost.den
                    ELSE IF PricesOfSelectedDay # {}
                    THEN energy_cost.num * Cardinality(PricesOfSelectedDay)
                             = DayTotal(SelectedDay)
                                   * SumTodayPrices(PricesOfSelectedDay)
                                   * energy_cost.den
                    ELSE energy_cost.num * Len(data.today_prices)
                             = DayTotal(SelectedDay)
                                   * SumTodayPrices(DOMAIN data.today_prices)
                                   * energy_cost.den

\* the sensor priced a day of which one hour has consumption and a price
\* record and another hour has consumption only
C18_Witness ==
    /\ daily_cost.returned # None
    /\ daily_cost.returned # Some(None)
    /\ PricedHours # {}
    /\ \E h \in ConsumedHours : PriceRecordsFor(h) = {}

---------------------------------------------------------------------------
(* Properties of the next invoice sensor *)

\* a step in which the sensor was read: nothing else can change its state
InvoiceRead == UNCHANGED <<data, last_update_success, now>>

\* the result holds a last invoice with two dates, start <= end, and
\* consumption and prices
HasLastInvoice ==
    /\ data.billing # None
    /\ data.consumption # << >>
    /\ data.today_prices # << >>
    /\ Val(data.billing).last_invoice # None
    /\ LET i == Val(Val(data.billing).last_invoice)
       IN  /\ i.start # None
           /\ i.end # None
           /\ Val(i.start).tz = "date"
           /\ Val(i.end).tz = "date"
           /\ Val(i.start).day <= Val(i.end).day

LastStart == Val(Val(Val(data.billing).last_invoice).start).day

LastEnd == Val(Val(Val(data.billing).last_invoice).end).day

\* the last day of the month and year of a day
MonthEnd(day) ==
    CHOOSE x \in day .. (day + 31) :
        /\ \A y \in day .. x : /\ CivilFromDays(y).month = CivilFromDays(day).month
                               /\ CivilFromDays(y).year = CivilFromDays(day).year
        /\ CivilFromDays(x + 1).month # CivilFromDays(day).month

\* the period the estimate is for
PeriodStart == LastEnd + 1

PeriodEnd ==
    LET naive == PeriodStart + (LastEnd - LastStart + 1) - 1
    IN  IF naive > MonthEnd(PeriodStart) THEN MonthEnd(PeriodStart) ELSE naive

\* C13: whenever the sensor is read with a last invoice, the period it
\* reports starts the day after the invoice's end and lasts as long as the
\* invoice, but ends with the calendar month (and year) of its start at the
\* latest
C13_NextPeriod ==
    [][(InvoiceRead /\ HasLastInvoice)
        => /\ next_invoice'.period_start = Some(PeriodStart)
           /\ next_invoice'.period_end = Some(PeriodEnd)]_vars

Min(a, b) == IF a <= b THEN a ELSE b

Max(a, b) == IF a >= b THEN a ELSE b

\* C14: whenever the sensor is read on or after the first day of the period
\* it reports, days_elapsed counts the days of the period up to today,
\* days_remaining the days of the period after today, and no day after the
\* period's end is among the elapsed days whose energy was priced
C14_DaysOfPeriod ==
    [][(/\ InvoiceRead
        /\ HasLastInvoice
        /\ next_invoice'.period_start # None
        /\ now >= Val(next_invoice'.period_start))
        => LET period_start == Val(next_invoice'.period_start)
               period_end == Val(next_invoice'.period_end)
           IN  /\ next_invoice'.days_elapsed
                    = Min(now, period_end) - period_start + 1
               /\ next_invoice'.days_remaining = Max(0, period_end - now)
               /\ next_invoice'.days_elapsed + next_invoice'.days_remaining
                    = period_end - period_start + 1
               /\ next_invoice'.terms # None
                    => \A x \in Val(next_invoice'.terms).sums.elapsed :
                          x <= period_end]_vars

\* the last invoice of the result is missing, lacks a date or has a date
\* that does not parse
UnusableInvoice ==
    \/ Val(data.billing).last_invoice = None
    \/ LET i == Val(Val(data.billing).last_invoice)
       IN  \/ i.start = None
           \/ i.end = None
           \/ Val(i.start).tz = "invalid"
           \/ Val(i.end).tz = "invalid"

\* the cases without an estimate
NoEstimateCase ==
    \/ data.billing = None
    \/ data.consumption = << >>
    \/ data.today_prices = << >>
    \/ UnusableInvoice
    \/ now < PeriodStart

\* C15: whenever the sensor is read in a case without an estimate, it
\* returns None, exposes no cost breakdown and reports days_elapsed and
\* days_remaining as 0
C15_AbsentEstimate ==
    [][(InvoiceRead /\ NoEstimateCase)
        => /\ next_invoice'.returned = Some(None)
           /\ NextInvoiceAttributes(next_invoice').breakdown = None
           /\ NextInvoiceAttributes(next_invoice').days_elapsed = 0
           /\ NextInvoiceAttributes(next_invoice').days_remaining = 0]_vars

\* the sensor was read while the end date of the last invoice did not parse
C15_Witness ==
    /\ data.billing # None
    /\ data.consumption # << >>
    /\ data.today_prices # << >>
    /\ Val(data.billing).last_invoice # None
    /\ Val(Val(data.billing).last_invoice).start # None
    /\ Val(Val(data.billing).last_invoice).end = Some(NotADate)
    /\ next_invoice.returned = Some(None)
    /\ next_invoice.estimated_breakdown = None

\* the sum of calculate_power_cost(power_kw, d).total_cost over the days d
\* from lo to hi, in 1e-7 EUR
RECURSIVE PowerCostOfDays(_, _)
PowerCostOfDays(lo, hi) ==
    IF lo > hi
    THEN 0
    ELSE CalculatePowerCostOf(Val(config), Val(entry.power_kw), Some(lo), now).total_cost * 10
         + PowerCostOfDays(lo + 1, hi)

\* C16: whenever the sensor computes an estimate, its power cost is the sum
\* of the daily power costs over the days of the period it reports, and its
\* other concepts are other_concepts_rate times the number of those days
C16_FullPeriodCosts ==
    [][(/\ InvoiceRead
        /\ next_invoice'.returned # None
        /\ Val(next_invoice'.returned) # None)
        => LET period_start == Val(next_invoice'.period_start)
               period_end == Val(next_invoice'.period_end)
               sums == Val(next_invoice'.terms).sums
           IN  /\ sums.power_cost_total
                    = IF entry.power_kw = None
                      THEN 0
                      ELSE PowerCostOfDays(period_start, period_end)
               /\ sums.other_concepts
                    = IF entry.other_concepts_rate = None
                      THEN 0
                      ELSE Val(entry.other_concepts_rate)
                               * (period_end - period_start + 1)
               /\ sums.power_days
                    = IF entry.power_kw = None
                      THEN {}
                      ELSE period_start .. period_end]_vars

\* C17: whenever the sensor computes an estimate, its base is the sum of
\* the five amounts, the electricity tax is base * electricity_tax_rate, the
\* VAT is (base + electricity tax) * vat_rate, and the value it returns is
\* base + electricity tax + VAT.  The three are fractions over the product
\* of the denominators of the two rates.
C17_TaxStacking ==
    [][(/\ InvoiceRead
        /\ next_invoice'.returned # None
        /\ Val(next_invoice'.returned) # None)
        => LET terms == Val(next_invoice'.terms)
               base == terms.sums.actual_energy_cost
                          + terms.sums.projected_energy_cost
                          + terms.sums.power_cost_total
                          + terms.sums.management_fee
                          + terms.sums.other_concepts
               t == entry.electricity_tax_rate
               v == entry.vat_rate
           IN  /\ terms.base_total = base
               /\ terms.electricity_tax.den = t.den * v.den
               /\ terms.electricity_tax.num = base * t.num * v.den
               /\ terms.vat.den = t.den * v.den
               /\ terms.vat.num = base * (t.den + t.num) * v.num
               /\ terms.total.den = t.den * v.den
               /\ terms.total.num = base * (t.den + t.num) * (v.den + v.num)
               /\ Val(next_invoice'.returned) = Some(terms.total)]_vars

\* an estimate with both taxes was computed: the VAT is more than vat_rate
\* times the base
C17_Witness ==
    /\ next_invoice.terms # None
    /\ entry.electricity_tax_rate.num > 0
    /\ entry.vat_rate.num > 0
    /\ Val(next_invoice.terms).base_total > 0
    /\ Val(next_invoice.terms).vat.num
         > Val(next_invoice.terms).base_total
             * entry.electricity_tax_rate.den * entry.vat_rate.num
    /\ next_invoice.returned = Some(Some(Val(next_invoice.terms).total))


\* the estimator is read on the first day of the period of a market tariff,
\* the day has consumption, and each of its consumed hours has a price
\* record of that date
FirstDayAllPriced ==
    /\ HasLastInvoice
    /\ config # None
    /\ Val(config).pricing_model = PRICING_MODEL_MARKET
    /\ PeriodStart = now
    /\ now \in DaysWithData
    /\ PricedHours = ConsumedHours

\* C19: for a market tariff, the energy cost the estimator attributes to an
\* elapsed day whose consumed hours all have a price record of that date is
\* the sum over those hours of consumption times the price the coordinator
\* calculated for the hour, which holds the discount of the window once
C19_DiscountOnce ==
    [][(/\ InvoiceRead
        /\ HasData(data, last_update_success)
        /\ FirstDayAllPriced
        /\ next_invoice'.terms # None)
        => Val(next_invoice'.terms).sums.actual_energy_cost
               = SumHours(PricedHours) * 10]_vars

\* the same, for a day with no consumption inside the discount window
C19_OutsideWindow ==
    [][(/\ InvoiceRead
        /\ HasData(data, last_update_success)
        /\ FirstDayAllPriced
        /\ \A h \in ConsumedHours :
              ~(Val(Val(config).discount_start_hour) <= h
                  /\ h < Val(Val(config).discount_end_hour))
        /\ next_invoice'.terms # None)
        => Val(next_invoice'.terms).sums.actual_energy_cost
               = SumHours(PricedHours) * 10]_vars
---------------------------------------------------------------------------
(* Properties of the credit merge                                           *)

\* the 'credits' list of a credits dict ({} has none)
CreditsOf(d) == IF d = None THEN << >> ELSE Val(d).credits

\* the ids that occur in a list of credit records
IdsOf(credits) ==
    {Val(credits[i].id) : i \in {j \in DOMAIN credits : credits[j].id # None}}

\* every record of both inputs carries an id
AllCreditsHaveIds ==
    /\ \A i \in DOMAIN CreditsOf(recent_credits) :
           CreditsOf(recent_credits)[i].id # None
    /\ \A i \in DOMAIN historical_credits : historical_credits[i].id # None

\* C20: after a merge of records that carry ids, for every recent structure
\* and every historical list (also the empty one, also lists with repeated
\* ids): the merged 'credits' list holds exactly one record for every id
\* that occurs in either input, its length is the number of distinct ids,
\* and an id that occurs in both inputs carries a recent record
C20_OneRecordPerId ==
    (merged_credits # None /\ AllCreditsHaveIds) =>
        LET result == CreditsOf(Val(merged_credits))
            recent == CreditsOf(recent_credits)
            ids == IdsOf(recent) \cup IdsOf(historical_credits)
        IN  /\ \A id \in ids :
                Cardinality({i \in DOMAIN result : result[i].id = Some(id)}) = 1
            /\ Len(result) = Cardinality(ids)
            /\ \A i \in DOMAIN result :
                (/\ result[i].id # None
                 /\ Val(result[i].id) \in IdsOf(recent) \cap IdsOf(historical_credits))
                    => result[i] \in ToSet(recent)


\* the merge built the result from a stored history
Merged == merged_credits # None /\ historical_credits # << >>

\* the Madrid calendar month [year, month] of a credit's createdAt
CreatedMonth(credit) ==
    LET st == Val(credit.createdAt)
        utc == st.day * 24 + st.hour
        loc == utc + MadridUtcOffset(utc)
        c == CivilFromDays(loc \div 24)
    IN  [year |-> c.year, month |-> c.month]

\* the calendar month of now, and the one before it
CurrentMonth ==
    LET c == CivilFromDays(now) IN [year |-> c.year, month |-> c.month]

PreviousMonth ==
    LET c == CivilFromDays(now)
    IN  IF c.month = 1
        THEN [year |-> c.year - 1, month |-> 12]
        ELSE [year |-> c.year, month |-> c.month - 1]

\* amounts are whole cents and no record was created after today
PlainCredits(credits) ==
    \A i \in DOMAIN credits :
        /\ credits[i].amount % 10 = 0
        /\ credits[i].createdAt # None => Val(credits[i].createdAt).day <= now

\* the positions of the merged list created in the calendar month m
CreatedIn(credits, m) ==
    {i \in DOMAIN credits :
        credits[i].createdAt # None /\ CreatedMonth(credits[i]) = m}

\* sum of the amounts at the positions I, in 0.1 cent
RECURSIVE SumAt(_, _)
SumAt(credits, I) ==
    IF I = {}
    THEN 0
    ELSE LET i == CHOOSE x \in I : TRUE
         IN  credits[i].amount + SumAt(credits, I \ {i})

\* sum of the values of a function with a finite domain
RECURSIVE SumValues(_, _)
SumValues(f, D) ==
    IF D = {}
    THEN 0
    ELSE LET x == CHOOSE y \in D : TRUE IN f[x] + SumValues(f, D \ {x})

\* total is the sum of amount / 100 over the merged records and the sum of
\* the totals by reason code (totals are in cents, amounts in 0.1 cent)
TotalsAgree ==
    LET m == Val(Val(merged_credits))
    IN  /\ m.totals.total * 10 = SumAt(m.credits, DOMAIN m.credits)
        /\ m.totals.total
             = SumValues(m.totals_by_reason_code, DOMAIN m.totals_by_reason_code)

\* current_month sums the records created in the calendar month of now
CurrentMonthExact ==
    LET m == Val(Val(merged_credits))
    IN  m.totals.current_month * 10
            = SumAt(m.credits, CreatedIn(m.credits, CurrentMonth))

\* last_month sums the records created in the previous calendar month
LastMonthExact ==
    LET m == Val(Val(merged_credits))
    IN  m.totals.last_month * 10
            = SumAt(m.credits, CreatedIn(m.credits, PreviousMonth))

\* C21: after a merge with a stored history, of records with whole-cent
\* amounts none of which was created after today: total is the sum of
\* amount / 100 over the merged records and equals the sum of the totals by
\* reason code; current_month is the sum over exactly the records whose
\* Madrid createdAt lies in the calendar month of now, and last_month over
\* exactly those whose createdAt lies anywhere in the previous calendar month
C21_CreditTotals ==
    (Merged /\ PlainCredits(CreditsOf(Val(merged_credits)))) =>
        /\ TotalsAgree
        /\ CurrentMonthExact
        /\ LastMonthExact

\* the same, for merged records none of which was created within the last
\* second of the previous month
C21_WholeSeconds ==
    (/\ Merged
     /\ PlainCredits(CreditsOf(Val(merged_credits)))
     /\ \A i \in DOMAIN CreditsOf(Val(merged_credits)) :
           CreditsOf(Val(merged_credits))[i].createdAt # None
               => Val(CreditsOf(Val(merged_credits))[i].createdAt).half_seconds = 0)
        => /\ TotalsAgree
           /\ CurrentMonthExact
           /\ LastMonthExact

\* C21, total and current_month alone
C21_TotalAndCurrentMonth ==
    (Merged /\ PlainCredits(CreditsOf(Val(merged_credits)))) =>
        /\ TotalsAgree
        /\ CurrentMonthExact
---------------------------------------------------------------------------
(* Properties of the monthly and weekly consumption sensors                 *)

\* the Madrid date of a consumption record with a parsable timestamp
RecordDay(item) ==
    LET st == Val(ItemTimeStr(item))
        utc == st.day * 24 + st.hour - (IF st.tz = "+02:00" THEN 2 ELSE 0)
    IN  (utc + MadridUtcOffset(utc)) \div 24

\* the records of a list that carry a parsable timestamp
Dated(c) ==
    {i \in DOMAIN c :
        ItemTimeStr(c[i]) # None /\ Val(ItemTimeStr(c[i])).tz # "invalid"}

\* kWh (1e-4) of the records of the list c dated within lo .. hi
RECURSIVE SumRecords(_, _)
SumRecords(c, I) ==
    IF I = {}
    THEN 0
    ELSE LET i == CHOOSE x \in I : TRUE
         IN  c[i].consumption + SumRecords(c, I \ {i})

Within(c, lo, hi) ==
    {i \in Dated(c) : lo <= RecordDay(c[i]) /\ RecordDay(c[i]) <= hi}

TotalWithin(c, lo, hi) == SumRecords(c, Within(c, lo, hi))

\* the most recent day with a record
LatestDay(c) ==
    CHOOSE d \in {RecordDay(c[i]) : i \in Dated(c)} :
        \A i \in Dated(c) : RecordDay(c[i]) <= d

\* first and last day of the month of a day
FirstOfMonth(day) ==
    DaysFromCivil(CivilFromDays(day).year, CivilFromDays(day).month, 1)

LastOfMonth(day) ==
    CHOOSE d \in day .. day + 31 :
        /\ CivilFromDays(d).month = CivilFromDays(day).month
        /\ CivilFromDays(d + 1).month # CivilFromDays(day).month

\* what the monthly sensor read last
MonthlySeen == Val(monthly_consumption.seen)

\* the last read of the monthly sensor returned a value
MonthlyReturned ==
    /\ monthly_consumption.seen # None
    /\ monthly_consumption.returned # None
    /\ Val(monthly_consumption.returned) # None

MonthlyValue == Val(Val(monthly_consumption.returned))

\* the month of the read has a record dated between the 1st and the day
CurrentMonthHasData ==
    Within(MonthlySeen.consumption, FirstOfMonth(MonthlySeen.today),
           MonthlySeen.today) # {}

\* the value and the flag of the month so far, or of the most recent month
\* with data when the month of the read has none
MonthSoFarReported ==
    IF CurrentMonthHasData
    THEN /\ MonthlyValue =
                Round3(TotalWithin(MonthlySeen.consumption,
                                   FirstOfMonth(MonthlySeen.today),
                                   MonthlySeen.today))
         /\ monthly_consumption.is_current_month
    ELSE /\ MonthlyValue =
                Round3(TotalWithin(MonthlySeen.consumption,
                           FirstOfMonth(LatestDay(MonthlySeen.consumption)),
                           LastOfMonth(LatestDay(MonthlySeen.consumption))))
         /\ ~monthly_consumption.is_current_month

\* C22: whenever the monthly sensor has returned a value: if the month of
\* the read has a record dated between the 1st and the day of the read, the
\* value is the sum of the daily totals from the 1st through that day, of
\* the consumption list that was read, and is_current_month is true; if the
\* month has no data, the value is the full total of the most recent month
\* with data and is_current_month is false
C22_MonthSoFar == MonthlyReturned => MonthSoFarReported

\* C27: the keys of the weekly breakdown of the monthly sensor are week
\* numbers from 1 to 5
C27_WeekNumbers ==
    DOMAIN monthly_consumption.weekly_breakdown \subseteq 1 .. 5

\* what the weekly sensor read last
WeeklySeen == Val(weekly_consumption.seen)

\* the last read of the weekly sensor found consumption and should_update
WeeklyRecomputed ==
    /\ weekly_consumption.seen # None
    /\ WeeklySeen.consumption # << >>
    /\ WeeklySeen.should_update

\* C23: after a read at which the weekly sensor recomputes: without a dated
\* record the value is absent; with a record in the trailing window
\* [today-6, today] the value is the sum of the daily totals of that window
\* and is_current_week is true; otherwise the value is the sum over the
\* seven days that end on the most recent date with data, is_current_week is
\* false and consumption_week_end is that date
C23_TrailingWeek ==
    WeeklyRecomputed =>
        IF Dated(WeeklySeen.consumption) = {}
        THEN weekly_consumption.returned = Some(None)
        ELSE IF Within(WeeklySeen.consumption, WeeklySeen.today - 6,
                       WeeklySeen.today) # {}
        THEN /\ weekly_consumption.returned =
                    Some(Some(Round3(TotalWithin(WeeklySeen.consumption,
                                                 WeeklySeen.today - 6,
                                                 WeeklySeen.today))))
             /\ weekly_consumption.is_current_week
        ELSE /\ weekly_consumption.returned =
                    Some(Some(Round3(TotalWithin(WeeklySeen.consumption,
                                         LatestDay(WeeklySeen.consumption) - 6,
                                         LatestDay(WeeklySeen.consumption)))))
             /\ ~weekly_consumption.is_current_week
             /\ weekly_consumption.consumption_week_end =
                    Some(LatestDay(WeeklySeen.consumption))

\* C26: when the weekly sensor has recomputed its total on the day of the
\* last read and that read saw consumption, the read returned the total of
\* that recomputation
C26_SameDaySameTotal ==
    (/\ weekly_consumption.seen # None
     /\ WeeklySeen.recomputed # None
     /\ WeeklySeen.consumption # << >>)
        => weekly_consumption.returned = WeeklySeen.recomputed
---------------------------------------------------------------------------
(* Properties of the update cycle                                           *)

\* the last update cycle and the coordinator it started from
LastCycle == Val(cycle)

\* C24: after every update cycle: the cached today price list differs from
\* the one before the cycle only if the sources answered with prices and
\* the new list is not empty; the cycle raised UpdateFailed exactly if the
\* fetch raised and the cached today price list was empty; and if the fetch
\* raised while a cache existed, the cycle completed with the cached prices
C24_TodayPrices ==
    cycle # None =>
        /\ LastCycle.today_answer # "prices"
               => coordinator._today_prices = LastCycle.before._today_prices
        /\ coordinator._today_prices # LastCycle.before._today_prices
               => coordinator._today_prices # << >>
        /\ LastCycle.update_failed
               <=> (LastCycle.today_raised
                    /\ LastCycle.before._today_prices = << >>)
        /\ (LastCycle.today_raised /\ LastCycle.before._today_prices # << >>)
               => /\ last_update_success
                  /\ data.today_prices = LastCycle.before._today_prices

\* the fetch for today raised in a cycle that started with a cache
C24_Witness ==
    /\ cycle # None
    /\ LastCycle.today_raised
    /\ LastCycle.before._today_prices # << >>
    /\ ~LastCycle.update_failed

\* C25: after every update cycle: a fetch for tomorrow was made only at an
\* hour from 14 on and only if no fetch for tomorrow had completed earlier
\* on that date; at most one fetch for tomorrow has completed on the date;
\* and a fetch that raised left the stored tomorrow prices and the marker
\* of the last update as they were and the cycle completed
C25_TomorrowOncePerDay ==
    cycle # None =>
        /\ LastCycle.tomorrow_fetch # "none"
               => /\ LastCycle.hour >= MARKET_PUBLISH_HOUR
                  /\ LastCycle.completed_before = 0
        /\ LastCycle.completed_today <= 1
        /\ LastCycle.tomorrow_fetch = "raised"
               => /\ coordinator._tomorrow_prices
                         = LastCycle.before._tomorrow_prices
                  /\ coordinator._last_tomorrow_update
                         = LastCycle.before._last_tomorrow_update
                  /\ ~LastCycle.update_failed
                  /\ last_update_success

\* a cycle after 14:00 made no fetch because one had completed that day,
\* after an earlier fetch of the day had raised
C25_Witness ==
    /\ cycle # None
    /\ LastCycle.hour >= MARKET_PUBLISH_HOUR
    /\ LastCycle.tomorrow_fetch = "none"
    /\ ~LastCycle.update_failed
    /\ LastCycle.completed_before = 1

\* a fetch for tomorrow raised in a cycle
C25_Raised ==
    /\ cycle # None
    /\ LastCycle.tomorrow_fetch = "raised"

\* the first fetch for tomorrow of the day d came back empty, the sources
\* have published since, and the clock will be looked at again that day
EmptyThenPublished(d) ==
    /\ now = d
    /\ cycle # None
    /\ LastCycle.day = d
    /\ LastCycle.tomorrow_fetch = "completed"
    /\ coordinator._tomorrow_prices = << >>
    /\ source.published
    /\ \E h \in CycleHours : h > clock_hour

\* a non-empty tomorrow price list was stored on the day d
StoredOn(d) ==
    /\ coordinator._tomorrow_prices # << >>
    /\ coordinator._last_tomorrow_update = Some(d)

\* a cycle of the day d in which a fetch raised
FetchRaisedOn(d) ==
    /\ cycle # None
    /\ LastCycle.day = d
    /\ \/ LastCycle.update_failed
       \/ LastCycle.tomorrow_fetch = "raised"

\* C29: if the first fetch for tomorrow of a day returned an empty list and
\* the sources publish later that day, then a later cycle of that day
\* stores a non-empty tomorrow price list, unless a fetch of a later cycle
\* raises
C29_TomorrowEventuallyStored ==
    \A d \in FirstCycleDay .. MaxCycleDay :
        EmptyThenPublished(d) ~> (StoredOn(d) \/ FetchRaisedOn(d))

\* the Madrid-local date of a price record: the instant of its timestamp
\* moved to Madrid time
TomorrowPriceDate(i) ==
    LET st == data.tomorrow_prices[i].start_time
        utc == st.day * 24 + st.hour - (IF st.tz = "+02:00" THEN 2 ELSE 0)
    IN  (utc + MadridUtcOffset(utc)) \div 24

\* C30: in the result of every completed update cycle each record of
\* tomorrow_prices is dated the day after the date of the cycle
C30_TomorrowIsTomorrow ==
    (cycle # None /\ ~LastCycle.update_failed) =>
        \A i \in DOMAIN data.tomorrow_prices :
            TomorrowPriceDate(i) = LastCycle.day + 1
---------------------------------------------------------------------------
(* Properties of the consumption merge                                      *)

\* the merged list
MergedList == Val(merged_consumption)

\* the keys of the keyed records of a list
KeysOf(items) ==
    {Val(ItemTimeStr(items[i])) :
        i \in {j \in DOMAIN items : ItemTimeStr(items[j]) # None}}

\* the last record of a list with the key k
LastWithKey(items, k) ==
    items[CHOOSE i \in DOMAIN items :
              /\ ItemTimeStr(items[i]) = Some(k)
              /\ \A j \in DOMAIN items :
                     ItemTimeStr(items[j]) = Some(k) => j <= i]

\* no two records of the merged list have the same key
OnePerKey ==
    \A i, j \in DOMAIN MergedList :
        (/\ i # j
         /\ ItemTimeStr(MergedList[i]) # None)
            => ItemTimeStr(MergedList[i]) # ItemTimeStr(MergedList[j])

\* every key of either input has a record, the recent one where there is one
AllRepresented ==
    \A k \in KeysOf(consumption_data) \cup KeysOf(historical_data) :
        \E i \in DOMAIN MergedList :
            /\ ItemTimeStr(MergedList[i]) = Some(k)
            /\ MergedList[i] =
                   IF k \in KeysOf(consumption_data)
                   THEN LastWithKey(consumption_data, k)
                   ELSE LastWithKey(historical_data, k)

\* the instant of a key in hours: a key without offset counts as UTC
KeyInstant(k) ==
    k.day * 24 + k.hour - (IF k.tz = "+02:00" THEN 2 ELSE 0)

\* the keyed records are in the order of their instants
Chronological ==
    \A i, j \in DOMAIN MergedList :
        (/\ i < j
         /\ ItemTimeStr(MergedList[i]) # None
         /\ ItemTimeStr(MergedList[j]) # None)
            => KeyInstant(Val(ItemTimeStr(MergedList[i])))
                   <= KeyInstant(Val(ItemTimeStr(MergedList[j])))

\* C28: the merge of a recent and a historical consumption list has at most
\* one record per key, has a record for every key of either input (the
\* recent record where the key is in the recent list) and is in
\* chronological order
C28_MergedConsumption ==
    merged_consumption # None =>
        /\ OnePerKey
        /\ AllRepresented
        /\ Chronological
=============================================================================
